---- MODULE Spec2Model ----
(***************************************************************************)
(* Multi-currency wallet: the in-memory store (MemStorage) and the REST    *)
(* handlers of server/routes.ts that register accounts, create wallets and *)
(* move money (deposit, transfer, convert).                                *)
(*                                                                         *)
(* Numbers.  The handlers compute on JavaScript numbers.  The model keeps  *)
(* every amount and balance as an integer count of thousandths of a        *)
(* currency unit and every exchange rate as an integer count of            *)
(* thousandths (0.915 is 915), and requests carry whole-unit amounts, so   *)
(* that amount * rate is an exact number of thousandths.  Binary rounding  *)
(* of IEEE-754 doubles is outside the model.                               *)
(*                                                                         *)
(* Responses.  A handler's response is the value of its Outcome operator   *)
(* in the state the request finds; the store is the state.                 *)
(*                                                                         *)
(* Scheduling.  In specification Spec every handler is one atomic action:  *)
(* requests are handled to completion, one at a time, each for an          *)
(* authenticated principal (isAuthenticated lets no other request reach a  *)
(* wallet or ledger handler).  Specification LoopSpec runs the same        *)
(* handlers on the event loop, one step from each `await` to the next, and *)
(* specification FaultSpec lets a storage call of a transfer or convert    *)
(* reject.  Specification ListSpec has the passing of time and the two     *)
(* endpoints that list ledger entries; in the other specifications nothing *)
(* reads the creation time of an entry and the clock stands still.         *)
(***************************************************************************)
EXTENDS Integers, Sequences, FiniteSets, TLC

VARIABLES
    users,          \* MemStorage.users: id -> account record
    wallets,        \* MemStorage.wallets: id -> wallet record
    transactions,   \* MemStorage.transactions: id -> ledger entry
    userId,         \* MemStorage.userId: next account id
    walletId,       \* MemStorage.walletId: next wallet id
    transactionId,  \* MemStorage.transactionId: next ledger entry id
    queue,          \* suspended handlers whose awaited promise is settled
    tasks,          \* suspended handlers whose awaited promise is pending
    now,            \* the clock read by new Date(), in milliseconds
    listed          \* the ledger entries of the last listing response

vars == <<users, wallets, transactions, userId, walletId, transactionId,
          queue, tasks, now, listed>>

(***************************************************************************)
(* Bounds of the model.                                                    *)
(***************************************************************************)
MaxWallets == 3     \* wallets created
MaxTx == 2          \* ledger entries appended

(***************************************************************************)
(* Program constants.                                                      *)
(***************************************************************************)
RateScale == 1000   \* rates and balances are counted in thousandths

NoRate == 0         \* exchangeRates[a]?.[b] is undefined

\* Mutant of exchangeRates: the table has a row for JPY.
exchangeRatesWithYen ==
    [ USD |-> [EUR |-> 915,  GBP |-> 790,  USD |-> 1000],
      EUR |-> [USD |-> 1093, GBP |-> 863,  EUR |-> 1000],
      GBP |-> [USD |-> 1266, EUR |-> 1159, GBP |-> 1000],
      JPY |-> [USD |-> 7,    JPY |-> 1000] ]
exchangeRates ==
    [ USD |-> [EUR |-> 915,  GBP |-> 790,  USD |-> 1000],
      EUR |-> [USD |-> 1093, GBP |-> 863,  EUR |-> 1000],
      GBP |-> [USD |-> 1266, EUR |-> 1159, GBP |-> 1000] ]

availableCurrencies == {"USD", "EUR", "GBP", "JPY", "CAD", "AUD", "CHF"}

(***************************************************************************)
(* Request inputs.                                                         *)
(***************************************************************************)
NoUser == 0         \* getUserByEmail found no account

Units(n) == n * RateScale

\* 0 is an amount the schemas reject; 1 is one whole currency unit.
Amounts == {Units(0), Units(1)}

\* The ids of the wallets that can exist, and one that never does.
WalletIdInputs == 1..(MaxWallets + 1)

\* Registration requests; unique emails bound the accounts by this set.
Emails == {"ann@x.io", "bob@x.io"}

\* Currencies asked for in wallet creation: two with a row in the rate
\* table, one without, one outside availableCurrencies.
CurrencyInputs == {"USD", "EUR", "JPY", "XXX"}

\* The optional name and description of a request are left out.
NameInputs == {""}

DescriptionInputs == {""}

\* req.user of a request that passed isAuthenticated
Principals == DOMAIN users

Response(op, status, message) ==
    [op |-> op, status |-> status, message |-> message]

\* Mutant of Returned: the insufficient-funds branch answers 400 without
\* `return`, so the handler goes on to its writes.
ReturnedUnlessInsufficient(r) ==
    r.status # 201 /\ r.message # "Insufficient funds in source wallet"

\* Every rejection is `return res.status(...).json(...)`: the handler stops
\* at its first failing check and only a 201 handler reaches its writes.
Returned(r) == r.status # 201

(***************************************************************************)
(* MemStorage, as operators on the maps.                                   *)
(***************************************************************************)
Min(S) == CHOOSE x \in S : \A y \in S : x <= y

\* Array.from(users.values()).find(user => user.email === email);
\* NoUser stands for undefined.
getUserByEmail(email) ==
    LET found == {id \in DOMAIN users : users[id].email = email}
    IN  IF found = {} THEN NoUser ELSE Min(found)

\* The ids of the wallets of one account (the handlers read their records
\* from the wallets map).
getWallets(uid) == {w \in DOMAIN wallets : wallets[w].userId = uid}

\* this.wallets.get(id) is defined
WalletExists(id) == id \in DOMAIN wallets

\* Mutant of createWallet: the wallet is stored under the first id instead
\* of the next one.
createWalletAtFirstId(ws, id, walletData) ==
    [x \in DOMAIN ws \cup {1} |->
        IF x = 1
        THEN [ id        |-> 1,
               userId    |-> walletData.userId,
               currency  |-> walletData.currency,
               name      |-> walletData.name,
               balance   |-> walletData.balance,
               isPrimary |-> walletData.isPrimary ]
        ELSE ws[x]]

\* { ...walletData, id, balance: walletData.balance ? walletData.balance : 0 }
\* stored under the next wallet id.
createWallet(ws, id, walletData) ==
    ws @@ (id :> [ id        |-> id,
                   userId    |-> walletData.userId,
                   currency  |-> walletData.currency,
                   name      |-> walletData.name,
                   balance   |-> IF walletData.balance # 0
                                 THEN walletData.balance ELSE 0,
                   isPrimary |-> walletData.isPrimary ])

\* Mutant of updateWalletBalance: a wallet whose new balance is 0 (falsy) is
\* taken for a missing one and dropped from the map.
updateWalletBalanceDroppingEmpty(ws, id, balance) ==
    IF id \notin DOMAIN ws THEN ws
    ELSE IF balance = 0 THEN [w \in DOMAIN ws \ {id} |-> ws[w]]
    ELSE [ws EXCEPT ![id] = [ws[id] EXCEPT !.balance = balance]]

\* Mutant of updateWalletBalance: the value is added to the stored balance
\* instead of replacing it.
updateWalletBalanceAdding(ws, id, balance) ==
    IF id \notin DOMAIN ws THEN ws
    ELSE [ws EXCEPT ![id] = [ws[id] EXCEPT !.balance = @ + balance]]

\* { ...wallet, balance } written back; an unknown id changes nothing.
updateWalletBalance(ws, id, balance) ==
    IF id \notin DOMAIN ws THEN ws
    ELSE [ws EXCEPT ![id] = [ws[id] EXCEPT !.balance = balance]]

\* Mutant of createTransaction: the entry is stored under the first id
\* instead of the next one.
createTransactionAtFirstId(ts, id, transactionData) ==
    [x \in DOMAIN ts \cup {1} |->
        transactionData @@ [id |-> 1, createdAt |-> now]]

\* Mutant of createTransaction: the ledger is replaced by one that holds
\* the new entry only.
createTransactionKeepingLast(ts, id, transactionData) ==
    id :> (transactionData @@ [id |-> id, createdAt |-> now])

\* { ...transactionData, id, createdAt: new Date() } stored under the next
\* ledger entry id.
createTransaction(ts, id, transactionData) ==
    ts @@ (id :> (transactionData @@ [id |-> id, createdAt |-> now]))

\* Mutant of ValidAmount: z.number().nonnegative() instead of positive().
ValidAmountOrZero(amount) == amount >= 0
(***************************************************************************)
(* The checks of the handlers.                                             *)
(***************************************************************************)
\* z.number().positive("Amount must be greater than 0")
ValidAmount(amount) == amount > 0

\* Mutant of OwnsBoth: only the source wallet's owner is compared.
OwnsSource(u, from, to) == wallets[from].userId = u

\* fromWallet.userId !== user.id || toWallet.userId !== user.id, negated
OwnsBoth(u, from, to) ==
    wallets[from].userId = u /\ wallets[to].userId = u

\* Mutant of Owns: the wallet is only looked up, its owner is not compared
\* with the principal.
OwnsIfExists(u, w) == w \in DOMAIN wallets
\* wallet.userId !== user.id, negated
Owns(u, w) == wallets[w].userId = u

\* Mutant of SufficientFunds: the source balance is tested for being
\* positive instead of being compared with the amount.
SufficientFundsIfPositive(from, amount) == wallets[from].balance > 0

\* Number(fromWallet.balance) < amount, negated
SufficientFunds(from, amount) == ~(wallets[from].balance < amount)

\* Mutant of LookupRate: the table is read with the pair the other way
\* round.
LookupRateReversed(fromCurrency, toCurrency) ==
    IF /\ toCurrency \in DOMAIN exchangeRates
       /\ fromCurrency \in DOMAIN exchangeRates[toCurrency]
    THEN exchangeRates[toCurrency][fromCurrency]
    ELSE NoRate

\* Mutant of LookupRate: a pair without a rate is converted one to one.
LookupRateOrOne(fromCurrency, toCurrency) ==
    IF /\ fromCurrency \in DOMAIN exchangeRates
       /\ toCurrency \in DOMAIN exchangeRates[fromCurrency]
    THEN exchangeRates[fromCurrency][toCurrency]
    ELSE RateScale

\* exchangeRates[fromWallet.currency]?.[toWallet.currency]
LookupRate(fromCurrency, toCurrency) ==
    IF /\ fromCurrency \in DOMAIN exchangeRates
       /\ toCurrency \in DOMAIN exchangeRates[fromCurrency]
    THEN exchangeRates[fromCurrency][toCurrency]
    ELSE NoRate

\* amount * rate, in thousandths
ConvertedAmount(amount, rate) == (amount * rate) \div RateScale

(***************************************************************************)
(* Each handler is a function of the store and the request: XOutcome is    *)
(* the response it sends and XAfter the store it leaves.                   *)
(***************************************************************************)
Store(us, uid, ws, wid, ts, tid) ==
    [ users |-> us, userId |-> uid, wallets |-> ws, walletId |-> wid,
      transactions |-> ts, transactionId |-> tid ]

Current == Store(users, userId, wallets, walletId, transactions, transactionId)

\* The step of the server that leaves store s.
Becomes(s) ==
    /\ users' = s.users
    /\ userId' = s.userId
    /\ wallets' = s.wallets
    /\ walletId' = s.walletId
    /\ transactions' = s.transactions
    /\ transactionId' = s.transactionId

(***************************************************************************)
(* POST /api/auth/register                                                 *)
(***************************************************************************)
RegisterOutcome(email, valid) ==
    IF ~valid THEN Response("register", 400, "Validation error")
    ELSE IF getUserByEmail(email) # NoUser
    THEN Response("register", 400, "User already exists")
    ELSE Response("register", 201, "Registration successful")

\* Mutant of RegisterAfter: the account is stored under userId but the
\* counter is not advanced (this.userId instead of this.userId++).
RegisterAfterKeepingCounter(email, valid) ==
    IF Returned(RegisterOutcome(email, valid)) THEN Current
    ELSE Store(users @@ (userId :> [id |-> userId, email |-> email]),
               userId,
               createWallet(wallets, walletId,
                   [ userId    |-> userId,
                     currency  |-> "USD",
                     name      |-> "Primary",
                     balance   |-> 0,
                     isPrimary |-> TRUE ]),
               walletId + 1,
               transactions, transactionId)
\* createUser, then createWallet of the default primary USD wallet
RegisterAfter(email, valid) ==
    IF Returned(RegisterOutcome(email, valid)) THEN Current
    ELSE Store(users @@ (userId :> [id |-> userId, email |-> email]),
               userId + 1,
               createWallet(wallets, walletId,
                   [ userId    |-> userId,
                     currency  |-> "USD",
                     name      |-> "Primary",
                     balance   |-> 0,
                     isPrimary |-> TRUE ]),
               walletId + 1,
               transactions, transactionId)

(***************************************************************************)
(* POST /api/wallets                                                       *)
(***************************************************************************)
\* Mutant of HasWalletIn: the wallet's name is compared with the currency.
HasWalletNamed(u, currency) ==
    \E w \in getWallets(u) : wallets[w].name = currency

\* userWallets.find(w => w.currency === currency) is defined
HasWalletIn(u, currency) ==
    \E w \in getWallets(u) : wallets[w].currency = currency

\* Mutant of CreateWalletOutcome: the wallets of the account are not
\* searched for the currency.
CreateWalletOutcomeUnchecked(u, currency, name) ==
    IF currency \notin availableCurrencies
    THEN Response("wallet", 400, "Invalid currency")
    ELSE Response("wallet", 201, "")
CreateWalletOutcome(u, currency, name) ==
    IF currency \notin availableCurrencies
    THEN Response("wallet", 400, "Invalid currency")
    ELSE IF HasWalletIn(u, currency)
    THEN Response("wallet", 400, "You already have a " \o currency \o " wallet")
    ELSE Response("wallet", 201, "")

\* Mutant of CreateWalletAfter: the new wallet is made the primary one
\* (isPrimary: true).
CreateWalletAfterPrimary(u, currency, name) ==
    IF Returned(CreateWalletOutcome(u, currency, name)) THEN Current
    ELSE Store(users, userId,
               createWallet(wallets, walletId,
                   [ userId    |-> u,
                     currency  |-> currency,
                     name      |-> IF name # "" THEN name ELSE currency,
                     balance   |-> 0,
                     isPrimary |-> TRUE ]),
               walletId + 1,
               transactions, transactionId)
CreateWalletAfter(u, currency, name) ==
    IF Returned(CreateWalletOutcome(u, currency, name)) THEN Current
    ELSE Store(users, userId,
               createWallet(wallets, walletId,
                   [ userId    |-> u,
                     currency  |-> currency,
                     name      |-> IF name # "" THEN name ELSE currency,
                     balance   |-> 0,
                     isPrimary |-> getWallets(u) = {} ]),
               walletId + 1,
               transactions, transactionId)

(***************************************************************************)
(* POST /api/transfers                                                     *)
(***************************************************************************)
\* Mutant of TransferOutcome: the funds check is made before the currency
\* check.
TransferOutcomeFundsFirst(u, from, to, amount) ==
    IF ~ValidAmount(amount)
    THEN Response("transfer", 400, "Validation error")
    ELSE IF ~WalletExists(from) \/ ~WalletExists(to)
    THEN Response("transfer", 404, "One or both wallets not found")
    ELSE IF ~OwnsBoth(u, from, to)
    THEN Response("transfer", 403, "You do not have access to these wallets")
    ELSE IF ~SufficientFunds(from, amount)
    THEN Response("transfer", 400, "Insufficient funds in source wallet")
    ELSE IF wallets[from].currency # wallets[to].currency
    THEN Response("transfer", 400,
             "Cannot transfer between different currencies. Use conversion instead.")
    ELSE Response("transfer", 201, "Transfer successful")

TransferOutcome(u, from, to, amount) ==
    IF ~ValidAmount(amount)
    THEN Response("transfer", 400, "Validation error")
    ELSE IF ~WalletExists(from) \/ ~WalletExists(to)
    THEN Response("transfer", 404, "One or both wallets not found")
    ELSE IF ~OwnsBoth(u, from, to)
    THEN Response("transfer", 403, "You do not have access to these wallets")
    ELSE IF wallets[from].currency # wallets[to].currency
    THEN Response("transfer", 400,
             "Cannot transfer between different currencies. Use conversion instead.")
    ELSE IF ~SufficientFunds(from, amount)
    THEN Response("transfer", 400, "Insufficient funds in source wallet")
    ELSE Response("transfer", 201, "Transfer successful")

\* Mutant of TransferWrites: the credit is computed from the balance that
\* the debit write has left.
TransferWritesReread(ws, from, to, amount) ==
    LET debited == updateWalletBalance(ws, from, ws[from].balance - amount)
    IN  updateWalletBalance(debited, to, debited[to].balance + amount)
\* The two balance writes of a transfer, in the order of the code: both new
\* balances are computed from the wallets read before the first write.
TransferWrites(ws, from, to, amount) ==
    LET fromBalance == ws[from].balance - amount
        toBalance   == ws[to].balance + amount
    IN  updateWalletBalance(updateWalletBalance(ws, from, fromBalance),
                            to, toBalance)

\* Mutant of TransferRecord: the record carries a rate of 1, as a conversion
\* between equal currencies would.
TransferRecordWithRate(u, from, to, amount, description) ==
    [ userId       |-> u,
      fromWalletId |-> from,
      toWalletId   |-> to,
      type         |-> "transfer",
      amount       |-> amount,
      fromCurrency |-> wallets[from].currency,
      toCurrency   |-> wallets[to].currency,
      rate         |-> RateScale,
      description  |-> IF description # "" THEN description
                       ELSE "Transfer between wallets",
      status       |-> "completed" ]

TransferRecord(u, from, to, amount, description) ==
    [ userId       |-> u,
      fromWalletId |-> from,
      toWalletId   |-> to,
      type         |-> "transfer",
      amount       |-> amount,
      fromCurrency |-> wallets[from].currency,
      toCurrency   |-> wallets[to].currency,
      description  |-> IF description # "" THEN description
                       ELSE "Transfer between wallets",
      status       |-> "completed" ]

TransferAfter(u, from, to, amount, description) ==
    IF Returned(TransferOutcome(u, from, to, amount)) THEN Current
    ELSE Store(users, userId,
               TransferWrites(wallets, from, to, amount),
               walletId,
               createTransaction(transactions, transactionId,
                   TransferRecord(u, from, to, amount, description)),
               transactionId + 1)

(***************************************************************************)
(* POST /api/conversions                                                   *)
(***************************************************************************)
\* Mutant of ConvertOutcome: the rate is looked up before the funds check.
ConvertOutcomeRateFirst(u, from, to, amount) ==
    IF ~ValidAmount(amount)
    THEN Response("convert", 400, "Validation error")
    ELSE IF ~WalletExists(from) \/ ~WalletExists(to)
    THEN Response("convert", 404, "One or both wallets not found")
    ELSE IF ~OwnsBoth(u, from, to)
    THEN Response("convert", 403, "You do not have access to these wallets")
    ELSE IF LookupRate(wallets[from].currency, wallets[to].currency) = NoRate
    THEN Response("convert", 400, "Exchange rate not available for this pair")
    ELSE IF ~SufficientFunds(from, amount)
    THEN Response("convert", 400, "Insufficient funds in source wallet")
    ELSE Response("convert", 201, "Conversion successful")

ConvertOutcome(u, from, to, amount) ==
    IF ~ValidAmount(amount)
    THEN Response("convert", 400, "Validation error")
    ELSE IF ~WalletExists(from) \/ ~WalletExists(to)
    THEN Response("convert", 404, "One or both wallets not found")
    ELSE IF ~OwnsBoth(u, from, to)
    THEN Response("convert", 403, "You do not have access to these wallets")
    ELSE IF ~SufficientFunds(from, amount)
    THEN Response("convert", 400, "Insufficient funds in source wallet")
    ELSE IF LookupRate(wallets[from].currency, wallets[to].currency) = NoRate
    THEN Response("convert", 400, "Exchange rate not available for this pair")
    ELSE Response("convert", 201, "Conversion successful")

ConvertWrites(ws, from, to, amount, rate) ==
    LET fromBalance == ws[from].balance - amount
        toBalance   == ws[to].balance + ConvertedAmount(amount, rate)
    IN  updateWalletBalance(updateWalletBalance(ws, from, fromBalance),
                            to, toBalance)

ConvertRecord(u, from, to, amount, rate) ==
    [ userId       |-> u,
      fromWalletId |-> from,
      toWalletId   |-> to,
      type         |-> "conversion",
      amount       |-> amount,
      fromCurrency |-> wallets[from].currency,
      toCurrency   |-> wallets[to].currency,
      rate         |-> rate,
      description  |-> "Converted " \o wallets[from].currency
                          \o " to " \o wallets[to].currency,
      status       |-> "completed" ]

ConvertAfter(u, from, to, amount) ==
    IF Returned(ConvertOutcome(u, from, to, amount)) THEN Current
    ELSE LET rate == LookupRate(wallets[from].currency, wallets[to].currency)
         IN  Store(users, userId,
                   ConvertWrites(wallets, from, to, amount, rate),
                   walletId,
                   createTransaction(transactions, transactionId,
                       ConvertRecord(u, from, to, amount, rate)),
                   transactionId + 1)

(***************************************************************************)
(* POST /api/deposits                                                      *)
(***************************************************************************)
DepositOutcome(u, w, amount) ==
    IF ~ValidAmount(amount)
    THEN Response("deposit", 400, "Validation error")
    ELSE IF ~WalletExists(w)
    THEN Response("deposit", 404, "Wallet not found")
    ELSE IF ~Owns(u, w)
    THEN Response("deposit", 403, "You do not have access to this wallet")
    ELSE Response("deposit", 201, "Deposit successful")

DepositRecord(u, w, amount) ==
    [ userId      |-> u,
      toWalletId  |-> w,
      type        |-> "deposit",
      amount      |-> amount,
      toCurrency  |-> wallets[w].currency,
      description |-> "Added funds to wallet",
      status      |-> "completed" ]

\* Mutant of DepositAfter: the balance is written but no ledger entry is
\* created.
DepositAfterUnrecorded(u, w, amount) ==
    IF Returned(DepositOutcome(u, w, amount)) THEN Current
    ELSE Store(users, userId,
               updateWalletBalance(wallets, w, wallets[w].balance + amount),
               walletId, transactions, transactionId)
DepositAfter(u, w, amount) ==
    IF Returned(DepositOutcome(u, w, amount)) THEN Current
    ELSE Store(users, userId,
               updateWalletBalance(wallets, w, wallets[w].balance + amount),
               walletId,
               createTransaction(transactions, transactionId,
                   DepositRecord(u, w, amount)),
               transactionId + 1)

(***************************************************************************)
(* The server: an empty store, then one request after another.  A request  *)
(* is taken up while the store it leaves is within the bounds.             *)
(***************************************************************************)
WithinBounds(s) ==
    /\ s.walletId <= MaxWallets + 1
    /\ s.transactionId <= MaxTx + 1

Handle(s) ==
    /\ WithinBounds(s)
    /\ Becomes(s)
    /\ UNCHANGED <<queue, tasks, now, listed>>

Init ==
    /\ users = <<>>
    /\ wallets = <<>>
    /\ transactions = <<>>
    /\ userId = 1
    /\ walletId = 1
    /\ transactionId = 1
    /\ queue = <<>>
    /\ tasks = <<>>
    /\ now = 0
    /\ listed = <<>>

Register ==
    \E email \in Emails, valid \in BOOLEAN :
        Handle(RegisterAfter(email, valid))

CreateWallet ==
    \E u \in Principals, currency \in CurrencyInputs, name \in NameInputs :
        Handle(CreateWalletAfter(u, currency, name))

Transfer ==
    \E u \in Principals, from \in WalletIdInputs, to \in WalletIdInputs,
       amount \in Amounts, description \in DescriptionInputs :
        Handle(TransferAfter(u, from, to, amount, description))

Convert ==
    \E u \in Principals, from \in WalletIdInputs, to \in WalletIdInputs,
       amount \in Amounts :
        Handle(ConvertAfter(u, from, to, amount))

Deposit ==
    \E u \in Principals, w \in WalletIdInputs, amount \in Amounts :
        Handle(DepositAfter(u, w, amount))

Next ==
    \/ Register
    \/ CreateWallet
    \/ Transfer
    \/ Convert
    \/ Deposit

Spec == Init /\ [][Next]_vars

(***************************************************************************)
(* The handlers on the event loop.  A handler is an async function: it     *)
(* runs from one `await` to the next without interruption, and a storage   *)
(* call acts on the maps when it is called, before the handler is          *)
(* suspended on its promise.  A MemStorage method awaits nothing, so its   *)
(* promise is settled when the handler awaits it and the handler is        *)
(* resumed from the microtask queue; hashPassword awaits bcrypt, whose     *)
(* promise is settled by a later task.  The loop takes a task (a request   *)
(* that arrives, a callback of bcrypt) only when the microtask queue is    *)
(* empty.                                                                  *)
(***************************************************************************)
MaxInFlight == 2    \* handlers suspended at the same time

\* this.wallets.get(id) of an id the map does not have
NoWallet ==
    [ id |-> 0, userId |-> 0, currency |-> "", name |-> "", balance |-> 0,
      isPrimary |-> FALSE ]

getWallet(id) == IF id \in DOMAIN wallets THEN wallets[id] ELSE NoWallet

\* validatedData.data and req.user of a request
Request(u, email, from, to, amount, currency) ==
    [ u |-> u, email |-> email, from |-> from, to |-> to, amount |-> amount,
      currency |-> currency ]

\* A handler at the start of its function: op, the position pc, the request
\* and the local constants the handler has assigned so far.
Job(op, req) ==
    [ op |-> op, pc |-> "start", req |-> req,
      existingUser |-> NoUser, user |-> NoUser, userWallets |-> {},
      fromWallet |-> NoWallet, toWallet |-> NoWallet ]

\* What a handler does from one await to the next: the store it leaves and
\* either the call it awaits and what it is when resumed, or its return.
Continue(s, call, j) == [store |-> s, more |-> TRUE, call |-> call, job |-> j]

Return(s) ==
    [ store |-> s, more |-> FALSE, call |-> "",
      job |-> Job("", Request(NoUser, "", 0, 0, 0, "")) ]

\* Mutant of SettlesInTurn: every storage call settles in a later task, as
\* the calls of a storage that waits for a database do.
SettlesLater(call) == FALSE

\* Mutant of SettlesInTurn: updateWalletBalance writes through to a store
\* that answers in a later task.
SettlesUnlessWrite(call) == call \notin {"hashPassword", "updateWalletBalance"}

\* The promise of `call` is settled when the handler awaits it.
SettlesInTurn(call) == call # "hashPassword"

\* The loop is between tasks and no microtask is left.
Idle == queue = <<>>

RegisterStep(j) ==
    CASE j.pc = "start" ->
           Continue(Current, "getUserByEmail",
               [j EXCEPT !.pc = "gotUser",
                         !.existingUser = getUserByEmail(j.req.email)])
      [] j.pc = "gotUser" ->
           IF j.existingUser # NoUser THEN Return(Current)
           ELSE Continue(Current, "hashPassword", [j EXCEPT !.pc = "hashed"])
      [] j.pc = "hashed" ->
           Continue(Store(users @@ (userId :> [id |-> userId,
                                               email |-> j.req.email]),
                          userId + 1, wallets, walletId,
                          transactions, transactionId),
               "createUser",
               [j EXCEPT !.pc = "createdUser", !.user = userId])
      [] j.pc = "createdUser" ->
           Continue(Store(users, userId,
                          createWallet(wallets, walletId,
                              [ userId    |-> j.user,
                                currency  |-> "USD",
                                name      |-> "Primary",
                                balance   |-> 0,
                                isPrimary |-> TRUE ]),
                          walletId + 1, transactions, transactionId),
               "createWallet", [j EXCEPT !.pc = "createdWallet"])
      [] OTHER -> Return(Current)

CreateWalletStep(j) ==
    CASE j.pc = "start" ->
           IF j.req.currency \notin availableCurrencies THEN Return(Current)
           ELSE Continue(Current, "getWallets",
                    [j EXCEPT !.pc = "gotWallets",
                              !.userWallets =
                                  {wallets[w] : w \in getWallets(j.req.u)}])
      [] j.pc = "gotWallets" ->
           IF \E w \in j.userWallets : w.currency = j.req.currency
           THEN Return(Current)
           ELSE Continue(Store(users, userId,
                              createWallet(wallets, walletId,
                                  [ userId    |-> j.req.u,
                                    currency  |-> j.req.currency,
                                    name      |-> j.req.currency,
                                    balance   |-> 0,
                                    isPrimary |-> j.userWallets = {} ]),
                              walletId + 1, transactions, transactionId),
                    "createWallet", [j EXCEPT !.pc = "created"])
      [] OTHER -> Return(Current)

\* The checks of a transfer, on the wallets the handler read.
TransferPasses(j) ==
    /\ j.fromWallet # NoWallet
    /\ j.toWallet # NoWallet
    /\ j.fromWallet.userId = j.req.u
    /\ j.toWallet.userId = j.req.u
    /\ j.fromWallet.currency = j.toWallet.currency
    /\ ~(j.fromWallet.balance < j.req.amount)

\* The checks of a convert, on the wallets the handler read.
ConvertPasses(j) ==
    /\ j.fromWallet # NoWallet
    /\ j.toWallet # NoWallet
    /\ j.fromWallet.userId = j.req.u
    /\ j.toWallet.userId = j.req.u
    /\ ~(j.fromWallet.balance < j.req.amount)
    /\ LookupRate(j.fromWallet.currency, j.toWallet.currency) # NoRate

\* The amount credited to the destination and the ledger record, from the
\* wallets the handler read.
Credit(j) ==
    IF j.op = "transfer" THEN j.req.amount
    ELSE ConvertedAmount(j.req.amount,
             LookupRate(j.fromWallet.currency, j.toWallet.currency))

MoveRecord(j) ==
    IF j.op = "transfer"
    THEN [ userId       |-> j.req.u,
           fromWalletId |-> j.req.from,
           toWalletId   |-> j.req.to,
           type         |-> "transfer",
           amount       |-> j.req.amount,
           fromCurrency |-> j.fromWallet.currency,
           toCurrency   |-> j.toWallet.currency,
           description  |-> "Transfer between wallets",
           status       |-> "completed" ]
    ELSE [ userId       |-> j.req.u,
           fromWalletId |-> j.req.from,
           toWalletId   |-> j.req.to,
           type         |-> "conversion",
           amount       |-> j.req.amount,
           fromCurrency |-> j.fromWallet.currency,
           toCurrency   |-> j.toWallet.currency,
           rate         |-> LookupRate(j.fromWallet.currency,
                                       j.toWallet.currency),
           description  |-> "Converted " \o j.fromWallet.currency
                               \o " to " \o j.toWallet.currency,
           status       |-> "completed" ]

\* POST /api/transfers and POST /api/conversions, await by await
MoveStep(j) ==
    CASE j.pc = "start" ->
           IF ~ValidAmount(j.req.amount) THEN Return(Current)
           ELSE Continue(Current, "getWallet",
                    [j EXCEPT !.pc = "gotFrom",
                              !.fromWallet = getWallet(j.req.from)])
      [] j.pc = "gotFrom" ->
           Continue(Current, "getWallet",
               [j EXCEPT !.pc = "gotTo", !.toWallet = getWallet(j.req.to)])
      [] j.pc = "gotTo" ->
           IF ~(IF j.op = "transfer" THEN TransferPasses(j)
                ELSE ConvertPasses(j))
           THEN Return(Current)
           ELSE Continue(Store(users, userId,
                              updateWalletBalance(wallets, j.req.from,
                                  j.fromWallet.balance - j.req.amount),
                              walletId, transactions, transactionId),
                    "updateWalletBalance", [j EXCEPT !.pc = "wroteFrom"])
      [] j.pc = "wroteFrom" ->
           Continue(Store(users, userId,
                          updateWalletBalance(wallets, j.req.to,
                              j.toWallet.balance + Credit(j)),
                          walletId, transactions, transactionId),
               "updateWalletBalance", [j EXCEPT !.pc = "wroteTo"])
      [] j.pc = "wroteTo" ->
           Continue(Store(users, userId, wallets, walletId,
                          createTransaction(transactions, transactionId,
                                            MoveRecord(j)),
                          transactionId + 1),
               "createTransaction", [j EXCEPT !.pc = "recorded"])
      [] j.pc = "recorded" ->
           Continue(Current, "getWallet", [j EXCEPT !.pc = "readFrom"])
      [] j.pc = "readFrom" ->
           Continue(Current, "getWallet", [j EXCEPT !.pc = "readTo"])
      [] OTHER -> Return(Current)

\* POST /api/deposits, await by await; the wallet it reads is toWallet.
DepositStep(j) ==
    CASE j.pc = "start" ->
           IF ~ValidAmount(j.req.amount) THEN Return(Current)
           ELSE Continue(Current, "getWallet",
                    [j EXCEPT !.pc = "gotTo",
                              !.toWallet = getWallet(j.req.to)])
      [] j.pc = "gotTo" ->
           IF j.toWallet = NoWallet \/ j.toWallet.userId # j.req.u
           THEN Return(Current)
           ELSE Continue(Store(users, userId,
                              updateWalletBalance(wallets, j.req.to,
                                  j.toWallet.balance + j.req.amount),
                              walletId, transactions, transactionId),
                    "updateWalletBalance", [j EXCEPT !.pc = "wroteTo"])
      [] j.pc = "wroteTo" ->
           Continue(Store(users, userId, wallets, walletId,
                          createTransaction(transactions, transactionId,
                              [ userId      |-> j.req.u,
                                toWalletId  |-> j.req.to,
                                type        |-> "deposit",
                                amount      |-> j.req.amount,
                                toCurrency  |-> j.toWallet.currency,
                                description |-> "Added funds to wallet",
                                status      |-> "completed" ]),
                          transactionId + 1),
               "createTransaction", [j EXCEPT !.pc = "recorded"])
      [] j.pc = "recorded" ->
           Continue(Current, "getWallet", [j EXCEPT !.pc = "readTo"])
      [] OTHER -> Return(Current)

StepOf(j) ==
    CASE j.op = "register" -> RegisterStep(j)
      [] j.op = "wallet"   -> CreateWalletStep(j)
      [] j.op = "deposit"  -> DepositStep(j)
      [] OTHER             -> MoveStep(j)

\* Handler j runs to its next await or to its return; q and t are the
\* suspended handlers other than j.
Resume(j, q, t) ==
    LET r == StepOf(j)
    IN  /\ Becomes(r.store)
        /\ UNCHANGED <<now, listed>>
        /\ IF ~r.more THEN queue' = q /\ tasks' = t
           ELSE IF SettlesInTurn(r.call)
           THEN queue' = Append(q, r.job) /\ tasks' = t
           ELSE queue' = q /\ tasks' = Append(t, r.job)

\* A request is taken up while the wallets and ledger entries that the
\* handlers in flight may still create are within the bounds.
Suspended == queue \o tasks

MayCreateWallet(j) ==
    j.op \in {"register", "wallet"} /\ j.pc \notin {"createdWallet", "created"}

MayAppend(j) ==
    /\ j.op \in {"transfer", "convert", "deposit"}
    /\ j.pc \notin {"recorded", "readFrom", "readTo"}

Admits(op) ==
    /\ Len(Suspended) < MaxInFlight
    /\ op \in {"register", "wallet"}
       => walletId + Cardinality({i \in 1..Len(Suspended) :
                                     MayCreateWallet(Suspended[i])})
            <= MaxWallets
    /\ op \in {"transfer", "convert", "deposit"}
       => transactionId + Cardinality({i \in 1..Len(Suspended) :
                                          MayAppend(Suspended[i])})
            <= MaxTx

Arrives(op, req) ==
    /\ Idle
    /\ Admits(op)
    /\ Resume(Job(op, req), queue, tasks)

ArriveRegister ==
    \E email \in Emails :
        Arrives("register", Request(NoUser, email, 0, 0, 0, ""))

\* Currencies asked for on the loop: one with a rate from and to USD, one
\* outside availableCurrencies.
LoopCurrencyInputs == {"EUR", "XXX"}

ArriveCreateWallet ==
    \E u \in Principals, currency \in LoopCurrencyInputs :
        Arrives("wallet", Request(u, "", 0, 0, 0, currency))

\* Wallet ids asked for on the loop: the first two wallets, of which the
\* second may not exist yet or may belong to another account.
LoopWalletIdInputs == {1, 2}

ArriveTransfer ==
    \E u \in Principals, from \in LoopWalletIdInputs,
       to \in LoopWalletIdInputs, amount \in Amounts :
        Arrives("transfer", Request(u, "", from, to, amount, ""))

ArriveConvert ==
    \E u \in Principals, from \in LoopWalletIdInputs,
       to \in LoopWalletIdInputs, amount \in Amounts :
        Arrives("convert", Request(u, "", from, to, amount, ""))

ArriveDeposit ==
    \E u \in Principals, w \in LoopWalletIdInputs, amount \in Amounts :
        Arrives("deposit", Request(u, "", 0, w, amount, ""))

\* The oldest microtask runs.
RunMicrotask ==
    /\ queue # <<>>
    /\ Resume(Head(queue), Tail(queue), tasks)

\* The promise of a suspended handler is settled by a task of its own.
RunTask ==
    /\ Idle
    /\ \E i \in 1..Len(tasks) :
           Resume(tasks[i], queue,
                  SubSeq(tasks, 1, i - 1) \o SubSeq(tasks, i + 1, Len(tasks)))

LoopNext ==
    \/ ArriveRegister
    \/ ArriveCreateWallet
    \/ ArriveTransfer
    \/ ArriveConvert
    \/ ArriveDeposit
    \/ RunMicrotask
    \/ RunTask

LoopSpec == Init /\ [][LoopNext]_vars

(***************************************************************************)
(* The handlers when a storage call rejects.  Every await of a handler is  *)
(* inside `try`, and the `catch` logs the error and answers 500: a         *)
(* transfer or convert whose second updateWalletBalance rejects has made   *)
(* its first write and makes no other.  MemStorage itself never rejects;   *)
(* FaultSpec is the server over a storage that may.                        *)
(***************************************************************************)
\* Mutant of TransferStopped: the ledger entry is appended before the
\* balance writes.
TransferStoppedRecorded(u, from, to, amount) ==
    IF Returned(TransferOutcome(u, from, to, amount)) THEN Current
    ELSE Store(users, userId,
               updateWalletBalance(wallets, from,
                                   wallets[from].balance - amount),
               walletId,
               createTransaction(transactions, transactionId,
                   TransferRecord(u, from, to, amount, "")),
               transactionId + 1)

\* The store a transfer leaves when its second balance write rejects.
TransferStopped(u, from, to, amount) ==
    IF Returned(TransferOutcome(u, from, to, amount)) THEN Current
    ELSE Store(users, userId,
               updateWalletBalance(wallets, from,
                                   wallets[from].balance - amount),
               walletId, transactions, transactionId)

\* The store a convert leaves when its second balance write rejects.
ConvertStopped(u, from, to, amount) ==
    IF Returned(ConvertOutcome(u, from, to, amount)) THEN Current
    ELSE Store(users, userId,
               updateWalletBalance(wallets, from,
                                   wallets[from].balance - amount),
               walletId, transactions, transactionId)

TransferStops ==
    \E u \in Principals, from \in WalletIdInputs, to \in WalletIdInputs,
       amount \in Amounts :
        /\ ~Returned(TransferOutcome(u, from, to, amount))
        /\ Handle(TransferStopped(u, from, to, amount))

ConvertStops ==
    \E u \in Principals, from \in WalletIdInputs, to \in WalletIdInputs,
       amount \in Amounts :
        /\ ~Returned(ConvertOutcome(u, from, to, amount))
        /\ Handle(ConvertStopped(u, from, to, amount))

FaultNext ==
    \/ Next
    \/ TransferStops
    \/ ConvertStops

FaultSpec == Init /\ [][FaultNext]_vars

(***************************************************************************)
(* Listing the ledger: MemStorage.getTransactions and                      *)
(* getWalletTransactions, GET /api/transactions and GET /api/wallets/:id.  *)
(* An optional number is a sequence: <<>> when it is absent (undefined),   *)
(* <<n>> when it is n.                                                     *)
(***************************************************************************)
Undefined == <<>>

Given(n) == <<n>>

\* The values of the limit argument and of the limit query parameter.
LimitInputs == {Undefined} \cup {Given(n) : n \in (-1)..(MaxTx + 1)}

\* Array.prototype.slice(0, end): a negative end counts from the end of the
\* array.
slice(array, end) ==
    IF end >= 0
    THEN SubSeq(array, 1, IF end < Len(array) THEN end ELSE Len(array))
    ELSE SubSeq(array, 1, Len(array) + end)

\* Array.from(this.transactions.values()).filter(...).sort((a, b) =>
\* b.createdAt.getTime() - a.createdAt.getTime()): the entries ids of the
\* ledger, newest first.  The values of the map come in insertion order,
\* which is the order of the ids, and the sort is stable: entries of one
\* creation time keep that order.
RECURSIVE sortNewestFirst(_)
sortNewestFirst(ids) ==
    IF ids = {} THEN <<>>
    ELSE LET first == CHOOSE i \in ids : \A o \in ids :
                          \/ transactions[i].createdAt
                                 > transactions[o].createdAt
                          \/ /\ transactions[i].createdAt
                                    = transactions[o].createdAt
                             /\ i <= o
         IN  <<transactions[first]>> \o sortNewestFirst(ids \ {first})

\* limit ? ... : ... takes the first branch unless limit is undefined or 0
Truthy(limit) == limit # Undefined /\ limit[1] # 0

\* transaction.userId === userId
OwnedEntries(uid) ==
    {t \in DOMAIN transactions : transactions[t].userId = uid}

\* transaction.fromWalletId === walletId || transaction.toWalletId ===
\* walletId; the entry of a deposit has no fromWalletId.
WalletEntries(id) ==
    {t \in DOMAIN transactions :
        \/ /\ "fromWalletId" \in DOMAIN transactions[t]
           /\ transactions[t].fromWalletId = id
        \/ transactions[t].toWalletId = id}

getTransactions(uid, limit) ==
    LET userTransactions == sortNewestFirst(OwnedEntries(uid))
    IN  IF Truthy(limit) THEN slice(userTransactions, limit[1])
        ELSE userTransactions

getWalletTransactions(id, limit) ==
    LET walletTransactions == sortNewestFirst(WalletEntries(id))
    IN  IF Truthy(limit) THEN slice(walletTransactions, limit[1])
        ELSE walletTransactions

\* Time passes.  The sort reads only the order of the creation times, so
\* the clock counts the moments that separate two appends: it moves on once
\* an entry has been created at the present moment.
Tick ==
    /\ \E t \in DOMAIN transactions : transactions[t].createdAt = now
    /\ now' = now + 1
    /\ UNCHANGED <<users, wallets, transactions, userId, walletId,
                   transactionId, queue, tasks, listed>>

\* GET /api/transactions: req.query.limit ? parseInt(req.query.limit) : 10
GetTransactions ==
    \E u \in Principals, query \in LimitInputs :
        LET limit == IF query # Undefined THEN query ELSE Given(10)
        IN  /\ listed' = getTransactions(u, limit)
            /\ UNCHANGED <<users, wallets, transactions, userId, walletId,
                           transactionId, queue, tasks, now>>

\* GET /api/wallets/:id: the last ten entries of a wallet of the principal;
\* 404 and 403 carry no entries.
GetWallet ==
    \E u \in Principals, id \in WalletIdInputs :
        /\ listed' = IF WalletExists(id) /\ Owns(u, id)
                     THEN getWalletTransactions(id, Given(10))
                     ELSE <<>>
        /\ UNCHANGED <<users, wallets, transactions, userId, walletId,
                       transactionId, queue, tasks, now>>

\* The requests that fill the ledger which is listed: registrations, the
\* creation of EUR wallets, and deposits, transfers and converts of one
\* unit among the first wallets.
ListWalletIdInputs == {1, 2, 3}

ListRegister ==
    \E email \in Emails : Handle(RegisterAfter(email, TRUE))

ListCreateWallet ==
    \E u \in Principals : Handle(CreateWalletAfter(u, "EUR", ""))

ListDeposit ==
    \E u \in Principals, w \in ListWalletIdInputs :
        Handle(DepositAfter(u, w, Units(1)))

ListTransfer ==
    \E u \in Principals, from \in ListWalletIdInputs,
       to \in ListWalletIdInputs :
        Handle(TransferAfter(u, from, to, Units(1), ""))

ListConvert ==
    \E u \in Principals, from \in ListWalletIdInputs,
       to \in ListWalletIdInputs :
        Handle(ConvertAfter(u, from, to, Units(1)))

ListNext ==
    \/ ListRegister
    \/ ListCreateWallet
    \/ ListDeposit
    \/ ListTransfer
    \/ ListConvert
    \/ Tick
    \/ GetTransactions
    \/ GetWallet

ListSpec == Init /\ [][ListNext]_vars
(***************************************************************************)
(* Vocabulary of the properties.                                           *)
(***************************************************************************)
Accepted(r) == r.status = 201

InsufficientFunds(r) ==
    r.status = 400 /\ r.message = "Insufficient funds in source wallet"

Forbidden(r) == r.status = 403

NotFound(r) == r.status = 404

ValidationError(r) == r.status = 400 /\ r.message = "Validation error"

\* w names a wallet of an account other than u
OwnedByOther(u, w) == w \in DOMAIN wallets /\ wallets[w].userId # u

\* w names a wallet of account u
OwnedBy(u, w) == w \in DOMAIN wallets /\ wallets[w].userId = u

NonNegative(ws) == \A w \in DOMAIN ws : ws[w].balance >= 0

(***************************************************************************)
(* C1.  Conservation: every transfer the server accepts leaves the sum of  *)
(* the source and destination balances what it was before the request.     *)
(* The code does not keep this: a transfer from a wallet to itself passes   *)
(* every check and its second write, computed from the balance read before  *)
(* the first, leaves the wallet at balance + amount.                        *)
(***************************************************************************)
Conservation ==
    [][ \A u \in Principals, from \in WalletIdInputs, to \in WalletIdInputs,
           amount \in Amounts :
            ( /\ Accepted(TransferOutcome(u, from, to, amount))
              /\ Becomes(TransferAfter(u, from, to, amount, "")) )
            => wallets'[from].balance + wallets'[to].balance
                   = wallets[from].balance + wallets[to].balance ]_vars

(***************************************************************************)
(* C2.  Non-negativity.  As claimed: every balance is >= 0, and a transfer  *)
(* or convert between wallets of the acting account whose amount exceeds    *)
(* the source balance is answered 400 'Insufficient funds in source         *)
(* wallet'.  A transfer between wallets of different currencies is          *)
(* answered 'Cannot transfer between different currencies' first.           *)
(***************************************************************************)
NonNegativityAsClaimed ==
    /\ NonNegative(wallets)
    /\ \A u \in Principals, from \in WalletIdInputs, to \in WalletIdInputs,
          amount \in Amounts :
           (OwnedBy(u, from) /\ OwnedBy(u, to) /\ amount > wallets[from].balance)
           => /\ InsufficientFunds(TransferOutcome(u, from, to, amount))
              /\ InsufficientFunds(ConvertOutcome(u, from, to, amount))

(***************************************************************************)
(* C2, amended.  Every balance is >= 0 in every reachable state and in the  *)
(* store every request leaves.  A transfer or convert whose amount exceeds  *)
(* the source balance is always rejected and changes nothing; it is         *)
(* rejected with InsufficientFunds when both wallets belong to the acting   *)
(* account and, for a transfer, have the same currency.                     *)
(***************************************************************************)
NonNegativity ==
    /\ NonNegative(wallets)
    /\ \A u \in Principals, w \in WalletIdInputs, amount \in Amounts :
           NonNegative(DepositAfter(u, w, amount).wallets)
    /\ \A u \in Principals, from \in WalletIdInputs, to \in WalletIdInputs,
          amount \in Amounts :
           /\ NonNegative(TransferAfter(u, from, to, amount, "").wallets)
           /\ NonNegative(ConvertAfter(u, from, to, amount).wallets)
           /\ (from \in DOMAIN wallets /\ amount > wallets[from].balance)
              => /\ ~Accepted(TransferOutcome(u, from, to, amount))
                 /\ ~Accepted(ConvertOutcome(u, from, to, amount))
                 /\ TransferAfter(u, from, to, amount, "") = Current
                 /\ ConvertAfter(u, from, to, amount) = Current
           /\ (OwnedBy(u, from) /\ OwnedBy(u, to) /\ amount > wallets[from].balance)
              => /\ InsufficientFunds(ConvertOutcome(u, from, to, amount))
                 /\ wallets[from].currency = wallets[to].currency
                    => InsufficientFunds(TransferOutcome(u, from, to, amount))

\* A funded wallet whose owner asks for more than it holds.
NonNegativityWitness ==
    \E u \in Principals, from \in WalletIdInputs, amount \in Amounts :
        /\ OwnedBy(u, from)
        /\ wallets[from].balance > 0
        /\ amount > wallets[from].balance
        /\ InsufficientFunds(TransferOutcome(u, from, from, amount))
        /\ InsufficientFunds(ConvertOutcome(u, from, from, amount))

(***************************************************************************)
(* C3.  No partial success: a transfer, convert or deposit request that is  *)
(* rejected leaves the whole store as it was: every wallet, every ledger    *)
(* entry and the ledger id counter.                                         *)
(***************************************************************************)
NoPartialSuccess ==
    /\ \A u \in Principals, from \in WalletIdInputs, to \in WalletIdInputs,
          amount \in Amounts :
           /\ ~Accepted(TransferOutcome(u, from, to, amount))
              => TransferAfter(u, from, to, amount, "") = Current
           /\ ~Accepted(ConvertOutcome(u, from, to, amount))
              => ConvertAfter(u, from, to, amount) = Current
    /\ \A u \in Principals, w \in WalletIdInputs, amount \in Amounts :
           ~Accepted(DepositOutcome(u, w, amount))
           => DepositAfter(u, w, amount) = Current

\* A store with a ledger entry and a funded wallet in which requests are
\* rejected for each reason: not found, forbidden, insufficient funds,
\* validation.
NoPartialSuccessWitness ==
    /\ transactions # <<>>
    /\ \E u \in Principals, from \in WalletIdInputs, to \in WalletIdInputs,
          missing \in WalletIdInputs, amount \in Amounts :
           /\ OwnedBy(u, from)
           /\ wallets[from].balance > 0
           /\ InsufficientFunds(TransferOutcome(u, from, from, amount))
           /\ Forbidden(ConvertOutcome(u, from, to, amount))
           /\ NotFound(DepositOutcome(u, missing, amount))
           /\ ValidationError(DepositOutcome(u, from, Units(0)))

(***************************************************************************)
(* C4.  Ownership enforcement.  As claimed: a transfer, convert or deposit  *)
(* that names a wallet of another account is answered 403 and changes       *)
(* nothing, whatever the amount and the other wallet id.  The handlers      *)
(* validate the amount and look both wallets up first, so such a request    *)
(* with amount 0, or whose other id names no wallet, is answered 400 or     *)
(* 404.                                                                     *)
(***************************************************************************)
OwnershipAsClaimed ==
    /\ \A u \in Principals, from \in WalletIdInputs, to \in WalletIdInputs,
          amount \in Amounts :
           (OwnedByOther(u, from) \/ OwnedByOther(u, to))
           => /\ Forbidden(TransferOutcome(u, from, to, amount))
              /\ Forbidden(ConvertOutcome(u, from, to, amount))
              /\ TransferAfter(u, from, to, amount, "") = Current
              /\ ConvertAfter(u, from, to, amount) = Current
    /\ \A u \in Principals, w \in WalletIdInputs, amount \in Amounts :
           OwnedByOther(u, w)
           => /\ Forbidden(DepositOutcome(u, w, amount))
              /\ DepositAfter(u, w, amount) = Current

(***************************************************************************)
(* C4, amended.  A transfer, convert or deposit that names a wallet of      *)
(* another account always fails and changes nothing: with a validation      *)
(* error (400) when the amount is not positive, else with NotFound (404)    *)
(* when the other wallet id of a transfer or convert names no wallet, else  *)
(* with Forbidden (403), whatever the balances.                             *)
(***************************************************************************)
OwnershipAnswer(r, amount, ids) ==
    IF amount <= 0 THEN ValidationError(r)
    ELSE IF \E w \in ids : w \notin DOMAIN wallets THEN NotFound(r)
    ELSE Forbidden(r)

OwnershipEnforced ==
    /\ \A u \in Principals, from \in WalletIdInputs, to \in WalletIdInputs,
          amount \in Amounts :
           (OwnedByOther(u, from) \/ OwnedByOther(u, to))
           => /\ OwnershipAnswer(TransferOutcome(u, from, to, amount),
                                 amount, {from, to})
              /\ OwnershipAnswer(ConvertOutcome(u, from, to, amount),
                                 amount, {from, to})
              /\ TransferAfter(u, from, to, amount, "") = Current
              /\ ConvertAfter(u, from, to, amount) = Current
    /\ \A u \in Principals, w \in WalletIdInputs, amount \in Amounts :
           OwnedByOther(u, w)
           => /\ OwnershipAnswer(DepositOutcome(u, w, amount), amount, {w})
              /\ DepositAfter(u, w, amount) = Current

\* An account with a funded wallet asks to move an amount it holds into a
\* wallet of the same currency that belongs to another account, and to
\* deposit into that wallet: both are answered 403.
OwnershipWitness ==
    \E u \in Principals, from \in WalletIdInputs, to \in WalletIdInputs,
       amount \in Amounts :
        /\ OwnedBy(u, from)
        /\ OwnedByOther(u, to)
        /\ wallets[from].currency = wallets[to].currency
        /\ amount > 0
        /\ wallets[from].balance >= amount
        /\ Forbidden(TransferOutcome(u, from, to, amount))
        /\ Forbidden(ConvertOutcome(u, to, from, amount))
        /\ Forbidden(DepositOutcome(u, to, amount))

(***************************************************************************)
(* C5.  Ledger completeness: every accepted transfer, convert or deposit    *)
(* appends exactly one ledger entry, under the next ledger id, owned by the *)
(* acting account, whose kind, amount, wallet ids and currencies are those  *)
(* of the request and of the wallets it names, and leaves the earlier       *)
(* entries alone; a rejected request appends none; the ledger holds         *)
(* exactly the entries 1 .. transactionId - 1.                              *)
(***************************************************************************)
\* ts is ledger `transactions` with one more entry, under the next id.
AppendsOne(ts) ==
    /\ DOMAIN ts = DOMAIN transactions \cup {transactionId}
    /\ transactionId \notin DOMAIN transactions
    /\ \A id \in DOMAIN transactions : ts[id] = transactions[id]
    /\ ts[transactionId].id = transactionId
    /\ ts[transactionId].status = "completed"

LedgerCompleteness ==
    /\ DOMAIN transactions = 1..(transactionId - 1)
    /\ \A u \in Principals, from \in WalletIdInputs, to \in WalletIdInputs,
          amount \in Amounts :
           /\ LET r     == TransferOutcome(u, from, to, amount)
                  after == TransferAfter(u, from, to, amount, "")
                  e     == after.transactions[transactionId]
              IN  IF Accepted(r)
                  THEN /\ AppendsOne(after.transactions)
                       /\ after.transactionId = transactionId + 1
                       /\ e.userId = u
                       /\ e.type = "transfer"
                       /\ e.amount = amount
                       /\ e.fromWalletId = from
                       /\ e.toWalletId = to
                       /\ e.fromCurrency = wallets[from].currency
                       /\ e.toCurrency = wallets[to].currency
                  ELSE /\ after.transactions = transactions
                       /\ after.transactionId = transactionId
           /\ LET r     == ConvertOutcome(u, from, to, amount)
                  after == ConvertAfter(u, from, to, amount)
                  e     == after.transactions[transactionId]
              IN  IF Accepted(r)
                  THEN /\ AppendsOne(after.transactions)
                       /\ after.transactionId = transactionId + 1
                       /\ e.userId = u
                       /\ e.type = "conversion"
                       /\ e.amount = amount
                       /\ e.fromWalletId = from
                       /\ e.toWalletId = to
                       /\ e.fromCurrency = wallets[from].currency
                       /\ e.toCurrency = wallets[to].currency
                  ELSE /\ after.transactions = transactions
                       /\ after.transactionId = transactionId
    /\ \A u \in Principals, w \in WalletIdInputs, amount \in Amounts :
           LET r     == DepositOutcome(u, w, amount)
               after == DepositAfter(u, w, amount)
               e     == after.transactions[transactionId]
           IN  IF Accepted(r)
               THEN /\ AppendsOne(after.transactions)
                    /\ after.transactionId = transactionId + 1
                    /\ e.userId = u
                    /\ e.type = "deposit"
                    /\ e.amount = amount
                    /\ e.toWalletId = w
                    /\ e.toCurrency = wallets[w].currency
                    /\ "fromWalletId" \notin DOMAIN e
                    /\ "fromCurrency" \notin DOMAIN e
               ELSE /\ after.transactions = transactions
                    /\ after.transactionId = transactionId

\* A ledger of two entries, a deposit and then the conversion of the
\* deposited unit, each as the request and the wallets had it.
LedgerCompletenessWitness ==
    /\ DOMAIN transactions = {1, 2}
    /\ transactions[1].type = "deposit"
    /\ transactions[2].type = "conversion"
    /\ transactions[2].fromWalletId = transactions[1].toWalletId
    /\ transactions[2].toWalletId # transactions[2].fromWalletId
    /\ transactions[2].userId = wallets[transactions[2].toWalletId].userId
    /\ transactions[2].toCurrency = wallets[transactions[2].toWalletId].currency
    /\ transactions[2].fromCurrency = transactions[1].toCurrency

(***************************************************************************)
(* C6.  Transfer effect: an accepted transfer of amount a from wallet A to  *)
(* a distinct wallet B takes exactly a from A, adds exactly a to B, changes *)
(* no other wallet and appends one ledger entry of kind transfer with       *)
(* amount a and the shared currency on both sides.                          *)
(*                                                                         *)
(* The formula holds of the handler, but no reachable state accepts a       *)
(* transfer between two distinct wallets (DistinctTransferAccepted is never *)
(* reached): an accepted transfer needs two wallets of one account in one   *)
(* currency, and no account holds two (C10).  The claim's case does not     *)
(* occur, so the formula settles nothing about it.                          *)
(***************************************************************************)
TransferEffect ==
    \A u \in Principals, from \in WalletIdInputs, to \in WalletIdInputs,
       amount \in Amounts :
        (Accepted(TransferOutcome(u, from, to, amount)) /\ from # to)
        => LET after == TransferAfter(u, from, to, amount, "")
               e     == after.transactions[transactionId]
           IN  /\ after.wallets
                    = [wallets EXCEPT
                         ![from].balance = wallets[from].balance - amount,
                         ![to].balance = wallets[to].balance + amount]
               /\ AppendsOne(after.transactions)
               /\ e.type = "transfer"
               /\ e.amount = amount
               /\ e.fromCurrency = wallets[from].currency
               /\ e.toCurrency = wallets[from].currency

DistinctTransferAccepted ==
    \E u \in Principals, from \in WalletIdInputs, to \in WalletIdInputs,
       amount \in Amounts :
        Accepted(TransferOutcome(u, from, to, amount)) /\ from # to

(***************************************************************************)
(* C7.  Convert effect: an accepted convert of amount a between two         *)
(* distinct wallets S and D of the acting account, whose ordered currency   *)
(* pair has table rate r, takes exactly a from S, adds exactly a * r to D,  *)
(* changes nothing else of any wallet, and appends one ledger entry of      *)
(* kind conversion with both currencies and the rate r; 100 USD to EUR at   *)
(* 0.915 is 91.5 EUR.                                                       *)
(***************************************************************************)
InTable(fromCurrency, toCurrency) ==
    /\ fromCurrency \in {"USD", "EUR", "GBP"}
    /\ toCurrency \in {"USD", "EUR", "GBP"}

ConvertEffect ==
    /\ 2 * ConvertedAmount(Units(100), exchangeRates["USD"]["EUR"]) = Units(183)
    /\ \A u \in Principals, from \in WalletIdInputs, to \in WalletIdInputs,
          amount \in Amounts :
           (Accepted(ConvertOutcome(u, from, to, amount)) /\ from # to)
           => LET after == ConvertAfter(u, from, to, amount)
                  e     == after.transactions[transactionId]
                  S     == wallets[from]
                  D     == wallets[to]
              IN  /\ InTable(S.currency, D.currency)
                  /\ LET r == exchangeRates[S.currency][D.currency]
                     IN  /\ after.wallets[from]
                              = [S EXCEPT !.balance = S.balance - amount]
                         /\ after.wallets[to].balance * RateScale
                              = D.balance * RateScale + amount * r
                         /\ after.wallets[to]
                              = [D EXCEPT !.balance = after.wallets[to].balance]
                         /\ e.rate = r
                  /\ DOMAIN after.wallets = DOMAIN wallets
                  /\ \A w \in DOMAIN wallets \ {from, to} :
                         after.wallets[w] = wallets[w]
                  /\ AppendsOne(after.transactions)
                  /\ e.type = "conversion"
                  /\ e.amount = amount
                  /\ e.fromCurrency = S.currency
                  /\ e.toCurrency = D.currency

\* One USD, deposited and then converted to EUR at 0.915: the USD wallet is
\* back at 0 and the EUR wallet holds 0.915.
ConvertEffectWitness ==
    /\ DOMAIN transactions = {1, 2}
    /\ transactions[2].type = "conversion"
    /\ transactions[2].amount = Units(1)
    /\ transactions[2].fromCurrency = "USD"
    /\ transactions[2].toCurrency = "EUR"
    /\ transactions[2].rate = 915
    /\ wallets[transactions[2].fromWalletId].balance = 0
    /\ wallets[transactions[2].toWalletId].balance = 915

(***************************************************************************)
(* C8.  Deposit effect: a deposit of a positive amount a into a wallet of   *)
(* the acting account is accepted, adds exactly a to that wallet's balance, *)
(* changes nothing else of any wallet, and appends one ledger entry of      *)
(* kind deposit with amount a, the wallet as destination, its currency as   *)
(* destination currency, and no source wallet, source currency or rate.     *)
(***************************************************************************)
DepositEffect ==
    \A u \in Principals, w \in WalletIdInputs, amount \in Amounts :
        (amount > 0 /\ OwnedBy(u, w))
        => LET after == DepositAfter(u, w, amount)
               e     == after.transactions[transactionId]
           IN  /\ Accepted(DepositOutcome(u, w, amount))
               /\ after.wallets
                    = [wallets EXCEPT ![w].balance = wallets[w].balance + amount]
               /\ AppendsOne(after.transactions)
               /\ e.userId = u
               /\ e.type = "deposit"
               /\ e.amount = amount
               /\ e.toWalletId = w
               /\ e.toCurrency = wallets[w].currency
               /\ DOMAIN e \cap {"fromWalletId", "fromCurrency", "rate"} = {}

\* A second deposit into a wallet that already held the first one.
DepositEffectWitness ==
    /\ DOMAIN transactions = {1, 2}
    /\ transactions[1].type = "deposit"
    /\ transactions[2].type = "deposit"
    /\ transactions[1].toWalletId = transactions[2].toWalletId
    /\ wallets[transactions[2].toWalletId].currency = "USD"
    /\ wallets[transactions[2].toWalletId].balance
         = transactions[1].amount + transactions[2].amount

(***************************************************************************)
(* C9.  Convert without a rate.  As claimed: a convert (of a positive       *)
(* amount) between two wallets of the acting account whose ordered currency *)
(* pair is not in the rate table is answered 400 'Exchange rate not         *)
(* available for this pair' and changes nothing.  The handler compares the  *)
(* amount with the source balance before it looks the rate up, so a convert *)
(* of more than the source wallet holds is answered 'Insufficient funds in  *)
(* source wallet'.                                                          *)
(***************************************************************************)
RateNotAvailable(r) ==
    r.status = 400 /\ r.message = "Exchange rate not available for this pair"

NoRateAsClaimed ==
    \A u \in Principals, from \in WalletIdInputs, to \in WalletIdInputs,
       amount \in Amounts :
        ( /\ amount > 0
          /\ OwnedBy(u, from)
          /\ OwnedBy(u, to)
          /\ ~InTable(wallets[from].currency, wallets[to].currency) )
        => /\ RateNotAvailable(ConvertOutcome(u, from, to, amount))
           /\ ConvertAfter(u, from, to, amount) = Current

(***************************************************************************)
(* C9, amended.  A convert between two wallets of the acting account whose  *)
(* ordered currency pair is not in the rate table changes no balance and    *)
(* appends no ledger entry; it fails with InvalidOperation ('Exchange rate  *)
(* not available for this pair') when its amount is positive and does not   *)
(* exceed the source balance, with InsufficientFunds when its amount        *)
(* exceeds the source balance, and with a validation error when its amount  *)
(* is not positive.  The table has a rate for exactly the ordered pairs of  *)
(* USD, EUR and GBP: no pair with JPY, CAD, AUD or CHF has one.             *)
(***************************************************************************)
NoRateRejected ==
    /\ \A a \in availableCurrencies \cup {"XXX"},
          b \in availableCurrencies \cup {"XXX"} :
           IF a \in {"USD", "EUR", "GBP"} /\ b \in {"USD", "EUR", "GBP"}
           THEN LookupRate(a, b) > 0
           ELSE LookupRate(a, b) = NoRate
    /\ \A u \in Principals, from \in WalletIdInputs, to \in WalletIdInputs,
          amount \in Amounts :
           ( /\ OwnedBy(u, from)
             /\ OwnedBy(u, to)
             /\ ~InTable(wallets[from].currency, wallets[to].currency) )
           => LET r == ConvertOutcome(u, from, to, amount)
              IN  /\ ConvertAfter(u, from, to, amount) = Current
                  /\ IF amount <= 0 THEN ValidationError(r)
                     ELSE IF amount > wallets[from].balance
                     THEN InsufficientFunds(r)
                     ELSE RateNotAvailable(r)

\* A funded JPY wallet whose owner asks to convert what it holds into USD,
\* and to convert USD it holds into JPY.
NoRateWitness ==
    \E u \in Principals, from \in WalletIdInputs, to \in WalletIdInputs,
       amount \in Amounts :
        /\ OwnedBy(u, from)
        /\ OwnedBy(u, to)
        /\ wallets[from].currency = "JPY"
        /\ wallets[to].currency = "USD"
        /\ amount > 0
        /\ wallets[from].balance >= amount
        /\ RateNotAvailable(ConvertOutcome(u, from, to, amount))
        /\ transactions # <<>>

(***************************************************************************)
(* C10.  No account holds two wallets of the same currency, in every        *)
(* reachable state and in the store every registration and every wallet    *)
(* creation request leaves.                                                 *)
(***************************************************************************)
OneWalletPerCurrency(ws) ==
    \A w1 \in DOMAIN ws, w2 \in DOMAIN ws :
        (w1 # w2 /\ ws[w1].userId = ws[w2].userId)
        => ws[w1].currency # ws[w2].currency

NoDuplicateCurrency ==
    /\ OneWalletPerCurrency(wallets)
    /\ \A email \in Emails, valid \in BOOLEAN :
           OneWalletPerCurrency(RegisterAfter(email, valid).wallets)
    /\ \A u \in Principals, currency \in CurrencyInputs :
           OneWalletPerCurrency(CreateWalletAfter(u, currency, "").wallets)

\* An account that holds a USD, a EUR and a JPY wallet and asks for each of
\* them again.
NoDuplicateCurrencyWitness ==
    \E u \in Principals :
        /\ {wallets[w].currency : w \in getWallets(u)} = {"USD", "EUR", "JPY"}
        /\ \A currency \in {"USD", "EUR", "JPY"} :
               /\ CreateWalletOutcome(u, currency, "").status = 400
               /\ CreateWalletAfter(u, currency, "") = Current

(***************************************************************************)
(* C11.  Wallet creation: a request for a currency outside USD, EUR, GBP,   *)
(* JPY, CAD, AUD, CHF is answered 400 'Invalid currency', a request for a   *)
(* currency the account already holds is answered 400 'You already have a   *)
(* ... wallet', and both leave the store as it was, wallet id counter       *)
(* included; every other request is answered 201 and adds exactly one       *)
(* wallet, under the next wallet id, with balance 0, the acting account as  *)
(* owner, the requested currency, and the requested name or, without one,   *)
(* the currency code; the counter advances by one and nothing else changes. *)
(***************************************************************************)
InvalidCurrency(r) == r.status = 400 /\ r.message = "Invalid currency"

DuplicateResource(r, currency) ==
    r.status = 400 /\ r.message = "You already have a " \o currency \o " wallet"

WalletCreation ==
    \A u \in Principals, currency \in CurrencyInputs, name \in {"", "Trip"} :
        LET r     == CreateWalletOutcome(u, currency, name)
            after == CreateWalletAfter(u, currency, name)
        IN  IF currency \notin {"USD", "EUR", "GBP", "JPY", "CAD", "AUD", "CHF"}
            THEN InvalidCurrency(r) /\ after = Current
            ELSE IF \E w \in DOMAIN wallets :
                        wallets[w].userId = u /\ wallets[w].currency = currency
            THEN DuplicateResource(r, currency) /\ after = Current
            ELSE /\ Accepted(r)
                 /\ walletId \notin DOMAIN wallets
                 /\ DOMAIN after.wallets = DOMAIN wallets \cup {walletId}
                 /\ \A w \in DOMAIN wallets : after.wallets[w] = wallets[w]
                 /\ after.wallets[walletId].id = walletId
                 /\ after.wallets[walletId].balance = 0
                 /\ after.wallets[walletId].userId = u
                 /\ after.wallets[walletId].currency = currency
                 /\ after.wallets[walletId].name
                      = (IF name = "" THEN currency ELSE name)
                 /\ after.walletId = walletId + 1
                 /\ after.users = users
                 /\ after.userId = userId
                 /\ after.transactions = transactions
                 /\ after.transactionId = transactionId

\* An account that was given a EUR wallet named after its currency, and
\* whose next requests are rejected (XXX, EUR again) and accepted (JPY).
WalletCreationWitness ==
    \E u \in Principals, w \in DOMAIN wallets :
        /\ wallets[w].userId = u
        /\ wallets[w].currency = "EUR"
        /\ wallets[w].name = "EUR"
        /\ wallets[w].balance = 0
        /\ InvalidCurrency(CreateWalletOutcome(u, "XXX", ""))
        /\ DuplicateResource(CreateWalletOutcome(u, "EUR", ""), "EUR")
        /\ Accepted(CreateWalletOutcome(u, "JPY", ""))

(***************************************************************************)
(* C12.  Currency invariance: in every step of the server, every wallet     *)
(* that exists before the step exists after it, with the currency and the   *)
(* owning account it had; a balance update replaces the balance only.       *)
(***************************************************************************)
CurrencyInvariance ==
    [][ \A w \in DOMAIN wallets :
            /\ w \in DOMAIN wallets'
            /\ wallets'[w].currency = wallets[w].currency
            /\ wallets'[w].userId = wallets[w].userId
            /\ wallets'[w].id = wallets[w].id ]_vars

\* A USD wallet and a EUR wallet of one account after a deposit into the
\* first and a conversion into the second: both were written and the USD
\* wallet is back at balance 0.
CurrencyInvarianceWitness ==
    \E u \in Principals, a \in DOMAIN wallets, b \in DOMAIN wallets :
        /\ wallets[a].userId = u
        /\ wallets[b].userId = u
        /\ wallets[a].currency = "USD"
        /\ wallets[b].currency = "EUR"
        /\ wallets[a].balance = 0
        /\ wallets[b].balance = 915
        /\ transactionId = 3

(***************************************************************************)
(* C13.  Account emails are unique: in every state of the server on the     *)
(* event loop no two accounts have the same email.  The code does not keep  *)
(* this: a registration is suspended on the password hash between its       *)
(* existence check and its createUser, a second registration for the same   *)
(* email is checked in between, and both create an account.                 *)
(***************************************************************************)
UniqueEmails ==
    \A a \in DOMAIN users, b \in DOMAIN users :
        a # b => users[a].email # users[b].email

(***************************************************************************)
(* C14.  The ledger is append-only: in every step of the server, every      *)
(* ledger entry that exists before the step exists after it, under the      *)
(* same id and with the same value in every field, so that the set of       *)
(* entries only grows.                                                      *)
(***************************************************************************)
LedgerAppendOnly ==
    [][ /\ DOMAIN transactions \subseteq DOMAIN transactions'
        /\ \A id \in DOMAIN transactions :
               transactions'[id] = transactions[id] ]_vars

\* A ledger whose first entry, a deposit, was there when a transfer was
\* appended as the second.
LedgerAppendOnlyWitness ==
    /\ DOMAIN transactions = {1, 2}
    /\ transactions[1].id = 1
    /\ transactions[1].type = "deposit"
    /\ transactions[2].id = 2
    /\ transactions[2].type = "transfer"

(***************************************************************************)
(* C15.  Every ledger entry, in the ledger of every reachable state and in  *)
(* the ledger every request leaves, has status 'completed' and kind         *)
(* transfer, conversion or deposit (never withdrawal, pending or failed),   *)
(* and carries a rate exactly when its kind is conversion.                  *)
(***************************************************************************)
CompletedEntries(ts) ==
    \A id \in DOMAIN ts :
        /\ ts[id].status = "completed"
        /\ ts[id].status \notin {"pending", "failed"}
        /\ ts[id].type \in {"transfer", "conversion", "deposit"}
        /\ ts[id].type # "withdrawal"
        /\ ("rate" \in DOMAIN ts[id]) <=> (ts[id].type = "conversion")

LedgerKinds ==
    /\ CompletedEntries(transactions)
    /\ \A u \in Principals, from \in WalletIdInputs, to \in WalletIdInputs,
          amount \in Amounts :
           /\ CompletedEntries(TransferAfter(u, from, to, amount, "").transactions)
           /\ CompletedEntries(ConvertAfter(u, from, to, amount).transactions)
           /\ CompletedEntries(DepositAfter(u, from, amount).transactions)

\* A ledger with a deposit, which has no rate, and a conversion, which has
\* one, in a state where a transfer would be accepted too.
LedgerKindsWitness ==
    /\ DOMAIN transactions = {1, 2}
    /\ transactions[1].type = "deposit"
    /\ "rate" \notin DOMAIN transactions[1]
    /\ transactions[2].type = "conversion"
    /\ "rate" \in DOMAIN transactions[2]
    /\ \E u \in Principals, w \in WalletIdInputs :
           Accepted(TransferOutcome(u, w, w, Units(1)))

(***************************************************************************)
(* C16.  Lost-update race.  As claimed: the await points of a ledger        *)
(* handler are points of interleaving, so that while a transfer or convert  *)
(* has read its source balance and not yet written it, another convert can  *)
(* be taken up and read the same balance.  On the event loop no request is  *)
(* taken up while a ledger handler is suspended: each of its awaits is on a *)
(* promise that is settled already.                                         *)
(***************************************************************************)
Ledger(j) == j.op \in {"transfer", "convert", "deposit"}

ReadNotWritten(j) ==
    j.op \in {"transfer", "convert"} /\ j.pc \in {"gotFrom", "gotTo"}

EntryEffect(e, w) ==
    LET credit == IF e.type = "conversion"
                  THEN ConvertedAmount(e.amount, e.rate) ELSE e.amount
    IN  IF e.toWalletId = w THEN credit
        ELSE IF "fromWalletId" \in DOMAIN e /\ e.fromWalletId = w
        THEN 0 - e.amount
        ELSE 0

RECURSIVE LedgerBalance(_, _)
LedgerBalance(w, n) ==
    IF n = 0 THEN 0
    ELSE LedgerBalance(w, n - 1)
            + (IF n \in DOMAIN transactions
               THEN EntryEffect(transactions[n], w) ELSE 0)

InSection(j) ==
    Ledger(j) /\ j.pc \in {"gotFrom", "gotTo", "wroteFrom", "wroteTo"}

OtherHandlerStep ==
    \/ ArriveRegister
    \/ ArriveCreateWallet
    \/ ArriveTransfer
    \/ ArriveConvert
    \/ ArriveDeposit
    \/ RunTask

HandlerAtomicity ==
    \A i \in 1..Len(Suspended) :
        InSection(Suspended[i])
        => /\ queue = <<Suspended[i]>>
           /\ ENABLED RunMicrotask
           /\ ~ENABLED OtherHandlerStep

\* A deposit between its balance write and its ledger append while a
\* registration waits for its hash.
HandlerAtomicityWitness ==
    /\ Len(tasks) = 1
    /\ tasks[1].op = "register"
    /\ Len(queue) = 1
    /\ queue[1].op = "deposit"
    /\ queue[1].pc = "wroteTo"
    /\ transactionId = 1

(***************************************************************************)
(* C18.  Partial failure.  As claimed: a transfer or convert that stops     *)
(* after its first balance write leaves the source debited and the          *)
(* destination not credited, and the ledger shows the debit: it has a new   *)
(* entry from the source wallet for the amount.  The handler appends the    *)
(* ledger entry after both writes, so the stopped request has none.         *)
(***************************************************************************)
\* Store `after` is the store with wallet from debited by amount and no
\* other wallet changed.
DebitedOnly(after, from, amount) ==
    /\ DOMAIN after.wallets = DOMAIN wallets
    /\ after.wallets[from]
         = [wallets[from] EXCEPT !.balance = wallets[from].balance - amount]
    /\ \A w \in DOMAIN wallets \ {from} : after.wallets[w] = wallets[w]

ShowsDebit(after, from, amount) ==
    \E id \in DOMAIN after.transactions \ DOMAIN transactions :
        /\ after.transactions[id].fromWalletId = from
        /\ after.transactions[id].amount = amount

PartialFailureAsClaimed ==
    \A u \in Principals, from \in WalletIdInputs, to \in WalletIdInputs,
       amount \in Amounts :
        /\ Accepted(TransferOutcome(u, from, to, amount))
           => LET after == TransferStopped(u, from, to, amount)
              IN  DebitedOnly(after, from, amount)
                     /\ ShowsDebit(after, from, amount)
        /\ Accepted(ConvertOutcome(u, from, to, amount))
           => LET after == ConvertStopped(u, from, to, amount)
              IN  DebitedOnly(after, from, amount)
                     /\ ShowsDebit(after, from, amount)

(***************************************************************************)
(* C18, amended.  A transfer or convert that stops after its first balance  *)
(* write leaves the source wallet debited by the amount and every other     *)
(* wallet, the destination included, as it was; the ledger and its id       *)
(* counter are as they were, so that the debit is recorded nowhere; and no  *)
(* compensating action restores the balance: no step of the server that     *)
(* appends no ledger entry raises the balance of any wallet.                *)
(***************************************************************************)
StoppedEffect ==
    \A u \in Principals, from \in WalletIdInputs, to \in WalletIdInputs,
       amount \in Amounts :
        /\ Accepted(TransferOutcome(u, from, to, amount))
           => LET after == TransferStopped(u, from, to, amount)
              IN  /\ DebitedOnly(after, from, amount)
                  /\ after.transactions = transactions
                  /\ after.transactionId = transactionId
        /\ Accepted(ConvertOutcome(u, from, to, amount))
           => LET after == ConvertStopped(u, from, to, amount)
              IN  /\ DebitedOnly(after, from, amount)
                  /\ after.transactions = transactions
                  /\ after.transactionId = transactionId

NoCompensation ==
    transactions' = transactions
    => \A w \in DOMAIN wallets : wallets'[w].balance <= wallets[w].balance

PartialFailure == []StoppedEffect /\ [][NoCompensation]_vars

\* A deposited unit that left the USD wallet and reached neither the EUR
\* wallet of the account nor the ledger, whose only entry is the deposit.
PartialFailureWitness ==
    \E u \in Principals, a \in DOMAIN wallets, b \in DOMAIN wallets :
        /\ wallets[a].userId = u
        /\ wallets[b].userId = u
        /\ wallets[a].currency = "USD"
        /\ wallets[b].currency = "EUR"
        /\ wallets[a].balance = 0
        /\ wallets[b].balance = 0
        /\ DOMAIN transactions = {1}
        /\ transactions[1].type = "deposit"
        /\ transactions[1].toWalletId = a
        /\ transactions[1].amount = Units(1)

(***************************************************************************)
(* C19.  Transfer check precedence: the response to a transfer (of a        *)
(* positive amount; the schema rejects any other before the handler looks   *)
(* at a wallet) is that of the first failing check in the order: both       *)
(* wallets exist, else 404; both belong to the acting account, else 403;    *)
(* both have the same currency, else 400 'Cannot transfer between different *)
(* currencies', also when the source balance is below the amount; the       *)
(* source balance is at least the amount, else 400 'Insufficient funds';    *)
(* and 201 when no check fails.  Each request has exactly one of these      *)
(* outcomes.                                                                *)
(***************************************************************************)
CurrencyMismatch(r) ==
    /\ r.status = 400
    /\ r.message
         = "Cannot transfer between different currencies. Use conversion instead."

OutcomesOf(r) ==
    { k \in {"ok", "validation", "notfound", "forbidden", "invalid",
             "insufficient"} :
        \/ k = "ok" /\ Accepted(r)
        \/ k = "validation" /\ ValidationError(r)
        \/ k = "notfound" /\ NotFound(r)
        \/ k = "forbidden" /\ Forbidden(r)
        \/ k = "invalid" /\ (CurrencyMismatch(r) \/ RateNotAvailable(r))
        \/ k = "insufficient" /\ InsufficientFunds(r) }

TransferPrecedence ==
    \A u \in Principals, from \in WalletIdInputs, to \in WalletIdInputs,
       amount \in Amounts :
        LET r == TransferOutcome(u, from, to, amount)
        IN  /\ Cardinality(OutcomesOf(r)) = 1
            /\ IF amount <= 0
               THEN ValidationError(r)
               ELSE IF from \notin DOMAIN wallets \/ to \notin DOMAIN wallets
               THEN NotFound(r)
               ELSE IF wallets[from].userId # u \/ wallets[to].userId # u
               THEN Forbidden(r)
               ELSE IF wallets[from].currency # wallets[to].currency
               THEN CurrencyMismatch(r)
               ELSE IF wallets[from].balance < amount
               THEN InsufficientFunds(r)
               ELSE Accepted(r)

\* An account with an empty USD wallet and a EUR wallet, and a second
\* account: a transfer of one unit from the empty wallet fails on the
\* currencies when it goes to the EUR wallet, on the ownership when it goes
\* to the other account's wallet, and on the existence when it goes to a
\* wallet that does not exist.
TransferPrecedenceWitness ==
    \E u \in Principals, from \in WalletIdInputs, to \in WalletIdInputs,
       other \in WalletIdInputs, missing \in WalletIdInputs :
        /\ OwnedBy(u, from)
        /\ OwnedBy(u, to)
        /\ OwnedByOther(u, other)
        /\ wallets[from].currency # wallets[to].currency
        /\ wallets[from].balance < Units(1)
        /\ CurrencyMismatch(TransferOutcome(u, from, to, Units(1)))
        /\ Forbidden(TransferOutcome(u, from, other, Units(1)))
        /\ NotFound(TransferOutcome(u, other, missing, Units(1)))

(***************************************************************************)
(* C20.  Convert check precedence.  As claimed: a convert (of a positive    *)
(* amount) fails with 404, 403 and 'Insufficient funds' in the order of a   *)
(* transfer and only then looks the rate up, so that a pair without a rate  *)
(* fails with 'Insufficient funds' when the amount exceeds the source       *)
(* balance and with 'Exchange rate not available' only when it does not;    *)
(* and a convert between wallets of the same currency is accepted at rate   *)
(* 1.  The table has the identity pairs of USD, EUR and GBP only: a convert *)
(* from a JPY wallet to a JPY wallet finds no rate.                         *)
(***************************************************************************)
ConvertChecks(u, from, to, amount, r) ==
    IF amount <= 0
    THEN ValidationError(r)
    ELSE IF from \notin DOMAIN wallets \/ to \notin DOMAIN wallets
    THEN NotFound(r)
    ELSE IF wallets[from].userId # u \/ wallets[to].userId # u
    THEN Forbidden(r)
    ELSE IF wallets[from].balance < amount
    THEN InsufficientFunds(r)
    ELSE IF ~InTable(wallets[from].currency, wallets[to].currency)
    THEN RateNotAvailable(r)
    ELSE Accepted(r)

\* The request passes the existence, ownership and funds checks of a
\* convert.
Convertible(u, from, to, amount) ==
    /\ amount > 0
    /\ OwnedBy(u, from)
    /\ OwnedBy(u, to)
    /\ wallets[from].balance >= amount

ConvertPrecedenceAsClaimed ==
    \A u \in Principals, from \in WalletIdInputs, to \in WalletIdInputs,
       amount \in Amounts :
        (Convertible(u, from, to, amount)
            /\ wallets[from].currency = wallets[to].currency)
        => /\ Accepted(ConvertOutcome(u, from, to, amount))
           /\ ConvertAfter(u, from, to, amount).transactions[transactionId].rate
                = RateScale

(***************************************************************************)
(* C20, amended.  A convert applies the existence, ownership and funds      *)
(* checks in the order of a transfer and only then looks the rate up: a     *)
(* pair without a rate fails with 'Insufficient funds' when the amount      *)
(* exceeds the source balance and with 'Exchange rate not available' only   *)
(* when it does not.  The currencies need not match.  A convert between     *)
(* wallets of the same currency that passes the three checks is accepted    *)
(* at rate 1 when the currency is USD, EUR or GBP and fails with 'Exchange  *)
(* rate not available' when it is JPY, CAD, AUD or CHF.                     *)
(***************************************************************************)
ConvertPrecedence ==
    \A u \in Principals, from \in WalletIdInputs, to \in WalletIdInputs,
       amount \in Amounts :
        LET r == ConvertOutcome(u, from, to, amount)
        IN  /\ Cardinality(OutcomesOf(r)) = 1
            /\ ConvertChecks(u, from, to, amount, r)
            /\ (Convertible(u, from, to, amount)
                   /\ wallets[from].currency = wallets[to].currency)
               => IF wallets[from].currency \in {"USD", "EUR", "GBP"}
                  THEN /\ Accepted(r)
                       /\ ConvertAfter(u, from, to, amount)
                            .transactions[transactionId].rate = RateScale
                  ELSE RateNotAvailable(r)

\* An account with a funded USD and a funded JPY wallet: the convert of a
\* unit from the USD wallet to itself is accepted, from the JPY wallet to
\* itself it finds no rate, and the convert of more than the JPY wallet
\* holds fails on the funds.
ConvertPrecedenceWitness ==
    \E u \in Principals, d \in WalletIdInputs, j \in WalletIdInputs :
        /\ OwnedBy(u, d)
        /\ OwnedBy(u, j)
        /\ wallets[d].currency = "USD"
        /\ wallets[j].currency = "JPY"
        /\ wallets[d].balance = Units(1)
        /\ wallets[j].balance = Units(1)
        /\ Accepted(ConvertOutcome(u, d, d, Units(1)))
        /\ RateNotAvailable(ConvertOutcome(u, j, j, Units(1)))
        /\ RateNotAvailable(ConvertOutcome(u, j, d, Units(1)))
        /\ InsufficientFunds(ConvertOutcome(u, j, d, Units(2)))

(***************************************************************************)
(* C21  Identifiers.                                                       *)
(***************************************************************************)
\* The records of one map carry the identifiers 1 .. next - 1, each under
\* its own key.
Numbered(map, next) ==
    /\ DOMAIN map = 1..(next - 1)
    /\ \A i \in DOMAIN map : map[i].id = i

\* The three counters of a store.
Counters(s) == <<s.userId, s.walletId, s.transactionId>>

\* Store s adds to the current store exactly the records numbered by the
\* old counters: accounts userId .. , wallets walletId .. and ledger
\* entries transactionId .. , nu, nw and nt of them.
Assigns(s, nu, nw, nt) ==
    /\ Counters(s) = <<userId + nu, walletId + nw, transactionId + nt>>
    /\ DOMAIN s.users = DOMAIN users \cup (userId..(userId + nu - 1))
    /\ DOMAIN s.wallets = DOMAIN wallets \cup (walletId..(walletId + nw - 1))
    /\ DOMAIN s.transactions =
           DOMAIN transactions \cup (transactionId..(transactionId + nt - 1))
    /\ \A i \in DOMAIN users : s.users[i] = users[i]
    /\ \A i \in DOMAIN wallets : s.wallets[i].id = i
    /\ \A i \in DOMAIN transactions : s.transactions[i] = transactions[i]

\* C21: accounts, wallets and ledger entries are numbered separately: in
\* every reachable state the n-th record created in a map is stored under
\* identifier n and carries it, so that no identifier is assigned twice and
\* a later record has a larger identifier than an earlier one.  A request
\* that is rejected leaves the three counters as they were; an accepted
\* registration takes the next account and the next wallet identifier, an
\* accepted wallet creation the next wallet identifier, and an accepted
\* deposit, transfer or convert the next ledger identifier.
Identifiers ==
    /\ Numbered(users, userId)
    /\ Numbered(wallets, walletId)
    /\ Numbered(transactions, transactionId)
    /\ \A email \in Emails, valid \in BOOLEAN :
           IF Returned(RegisterOutcome(email, valid))
           THEN Assigns(RegisterAfter(email, valid), 0, 0, 0)
           ELSE /\ Assigns(RegisterAfter(email, valid), 1, 1, 0)
                /\ RegisterAfter(email, valid).users[userId].id = userId
                /\ RegisterAfter(email, valid).wallets[walletId].id = walletId
    /\ \A u \in Principals :
        /\ \A currency \in CurrencyInputs, name \in NameInputs :
               IF Returned(CreateWalletOutcome(u, currency, name))
               THEN Assigns(CreateWalletAfter(u, currency, name), 0, 0, 0)
               ELSE /\ Assigns(CreateWalletAfter(u, currency, name), 0, 1, 0)
                    /\ CreateWalletAfter(u, currency, name)
                           .wallets[walletId].id = walletId
        /\ \A w \in WalletIdInputs, amount \in Amounts :
               IF Returned(DepositOutcome(u, w, amount))
               THEN Assigns(DepositAfter(u, w, amount), 0, 0, 0)
               ELSE /\ Assigns(DepositAfter(u, w, amount), 0, 0, 1)
                    /\ DepositAfter(u, w, amount)
                           .transactions[transactionId].id = transactionId
        /\ \A from \in WalletIdInputs, to \in WalletIdInputs,
              amount \in Amounts :
            /\ IF Returned(TransferOutcome(u, from, to, amount))
               THEN Assigns(TransferAfter(u, from, to, amount, ""), 0, 0, 0)
               ELSE /\ Assigns(TransferAfter(u, from, to, amount, ""), 0, 0, 1)
                    /\ TransferAfter(u, from, to, amount, "")
                           .transactions[transactionId].id = transactionId
            /\ IF Returned(ConvertOutcome(u, from, to, amount))
               THEN Assigns(ConvertAfter(u, from, to, amount), 0, 0, 0)
               ELSE /\ Assigns(ConvertAfter(u, from, to, amount), 0, 0, 1)
                    /\ ConvertAfter(u, from, to, amount)
                           .transactions[transactionId].id = transactionId

\* Two accounts, three wallets and two ledger entries have been created,
\* and in that state a registration and a deposit would be rejected.
IdentifiersWitness ==
    /\ Counters(Current) = <<3, 4, 3>>
    /\ \E email \in Emails : Returned(RegisterOutcome(email, TRUE))
    /\ \E u \in Principals, w \in WalletIdInputs :
           Forbidden(DepositOutcome(u, w, Units(1)))

(***************************************************************************)
(* C22  Ledger listing.                                                    *)
(***************************************************************************)
\* The ids of the entries of a listing.
ListedIds(r) == {r[k].id : k \in 1..Len(r)}

\* Listing r is made of entries of the set ids of the ledger, each once,
\* newest first.
NewestFirst(r, ids) ==
    /\ \A k \in 1..Len(r) : r[k].id \in ids /\ r[k] = transactions[r[k].id]
    /\ Cardinality(ListedIds(r)) = Len(r)
    /\ \A k \in 1..(Len(r) - 1) : r[k].createdAt >= r[k + 1].createdAt

\* Listing r holds n entries of ids, and none that it leaves out is newer
\* than one that it holds.
MostRecent(r, ids, n) ==
    /\ Len(r) = (IF n < Cardinality(ids) THEN n ELSE Cardinality(ids))
    /\ \A i \in ListedIds(r), o \in ids \ ListedIds(r) :
           transactions[i].createdAt >= transactions[o].createdAt

\* What the claim says of listing r of the entries ids under limit.
ListedAsClaimed(r, ids, limit) ==
    /\ NewestFirst(r, ids)
    /\ IF limit = Undefined THEN ListedIds(r) = ids
       ELSE Len(r) <= limit[1] /\ MostRecent(r, ids, limit[1])

\* The limits that can bound a length: absent, or a number from 0.
Limits == {limit \in LimitInputs : limit = Undefined \/ limit[1] >= 0}

\* C22: for every account and every limit (absent, 0, 1, ...),
\* getTransactions returns only entries of that account, newest first, all
\* of them when no limit is given and otherwise at most limit entries, the
\* most recent ones; for every wallet getWalletTransactions returns in the
\* same way the entries that name the wallet as source or destination.
Listing ==
    \A limit \in Limits :
        /\ \A u \in Principals :
               ListedAsClaimed(getTransactions(u, limit),
                               OwnedEntries(u), limit)
        /\ \A w \in DOMAIN wallets :
               ListedAsClaimed(getWalletTransactions(w, limit),
                               WalletEntries(w), limit)

(***************************************************************************)
(* C23  Balances change only through ledger operations.                    *)
(***************************************************************************)
\* Store s keeps every wallet of the current store with its balance.
KeepsBalances(s) ==
    \A w \in DOMAIN wallets :
        w \in DOMAIN s.wallets /\ s.wallets[w].balance = wallets[w].balance

\* Ledger entry e names wallet w as its source or its destination.
NamesWallet(e, w) ==
    \/ "fromWalletId" \in DOMAIN e /\ e.fromWalletId = w
    \/ e.toWalletId = w

\* The step appends one completed deposit, transfer or conversion entry
\* that names wallet w.
LedgerOperationOn(w) ==
    /\ transactionId' = transactionId + 1
    /\ DOMAIN transactions' = DOMAIN transactions \cup {transactionId}
    /\ transactions'[transactionId].type
           \in {"deposit", "transfer", "conversion"}
    /\ transactions'[transactionId].status = "completed"
    /\ NamesWallet(transactions'[transactionId], w)

\* Every step keeps the existing wallets, and changes the balance of one
\* only together with a ledger operation on it.
BalanceChangesRecorded ==
    \A w \in DOMAIN wallets :
        /\ w \in DOMAIN wallets'
        /\ wallets'[w].balance # wallets[w].balance => LedgerOperationOn(w)

\* No request other than a ledger operation changes a balance: not a
\* registration, not a wallet creation, and not a deposit, transfer or
\* convert that is rejected.
OthersKeepBalances ==
    /\ \A email \in Emails, valid \in BOOLEAN :
           KeepsBalances(RegisterAfter(email, valid))
    /\ \A u \in Principals :
        /\ \A currency \in CurrencyInputs, name \in NameInputs :
               KeepsBalances(CreateWalletAfter(u, currency, name))
        /\ \A w \in WalletIdInputs, amount \in Amounts :
               Returned(DepositOutcome(u, w, amount))
                   => KeepsBalances(DepositAfter(u, w, amount))
        /\ \A from \in WalletIdInputs, to \in WalletIdInputs,
              amount \in Amounts :
            /\ Returned(TransferOutcome(u, from, to, amount))
                   => KeepsBalances(TransferAfter(u, from, to, amount, ""))
            /\ Returned(ConvertOutcome(u, from, to, amount))
                   => KeepsBalances(ConvertAfter(u, from, to, amount))

\* C23: registration, wallet creation and every rejected request leave the
\* balance of every existing wallet unchanged,
\* and every step of the server that changes the balance of a wallet is a
\* successful deposit, transfer or convert that names that wallet: it
\* appends the completed ledger entry of that operation.
BalanceFrame == []OthersKeepBalances /\ [][BalanceChangesRecorded]_vars

\* A deposit has raised the balance of wallet 1, the only ledger entry
\* names it, and a second account has registered and a third wallet has
\* been created without a change of a balance.
BalanceFrameWitness ==
    /\ Counters(Current) = <<3, 4, 2>>
    /\ wallets[1].balance = Units(1)
    /\ transactions[1].type = "deposit"
    /\ NamesWallet(transactions[1], 1)
    /\ \A w \in DOMAIN wallets \ {1} : wallets[w].balance = 0

(***************************************************************************)
(* C24  The primary wallet.                                                *)
(***************************************************************************)
\* The primary wallets of account u in the wallets map ws.
PrimaryWallets(ws, u) ==
    {w \in DOMAIN ws : ws[w].userId = u /\ ws[w].isPrimary}

\* C24: in every state reached by completed registrations and wallet
\* creations (and ledger operations) every account has at most one primary
\* wallet: an accepted registration creates for the new account one primary
\* USD wallet with balance 0, and the wallet that an accepted
\* POST /api/wallets creates is not primary.
OnePrimaryWallet ==
    /\ \A u \in DOMAIN users : Cardinality(PrimaryWallets(wallets, u)) <= 1
    /\ \A email \in Emails :
           Accepted(RegisterOutcome(email, TRUE))
               => LET s == RegisterAfter(email, TRUE)
                  IN  /\ PrimaryWallets(s.wallets, userId) = {walletId}
                      /\ s.wallets[walletId].currency = "USD"
                      /\ s.wallets[walletId].balance = 0
    /\ \A u \in Principals, currency \in CurrencyInputs, name \in NameInputs :
           Accepted(CreateWalletOutcome(u, currency, name))
               => LET s == CreateWalletAfter(u, currency, name)
                  IN  /\ ~s.wallets[walletId].isPrimary
                      /\ PrimaryWallets(s.wallets, u)
                             = PrimaryWallets(wallets, u)

\* An account holds three wallets, created by its registration and by two
\* later wallet creations, and only the USD wallet is primary.
OnePrimaryWalletWitness ==
    \E u \in Principals :
        /\ Cardinality(getWallets(u)) = 3
        /\ \E w \in getWallets(u) :
               /\ PrimaryWallets(wallets, u) = {w}
               /\ wallets[w].currency = "USD"

(***************************************************************************)
(* C25  Every successful transfer is a transfer of a wallet to itself.     *)
(***************************************************************************)
\* The ledger entries of type transfer.
Transfers == {t \in DOMAIN transactions : transactions[t].type = "transfer"}

\* C25: no account holds two wallets of one currency, so that in every
\* reachable state every transfer request that would be accepted names one
\* wallet as source and destination, and every transfer that the ledger
\* records has fromWalletId = toWalletId: no transfer between two distinct
\* wallets ever succeeds.
SelfTransfersOnly ==
    /\ OneWalletPerCurrency(wallets)
    /\ \A u \in Principals, from \in WalletIdInputs, to \in WalletIdInputs,
          amount \in Amounts :
           Accepted(TransferOutcome(u, from, to, amount)) => from = to
    /\ \A t \in Transfers :
           transactions[t].fromWalletId = transactions[t].toWalletId

\* An account with two wallets has made a transfer, and would be refused
\* the transfer of a unit that it holds between its two wallets, in either
\* direction.
SelfTransfersOnlyWitness ==
    \E u \in Principals, a \in WalletIdInputs, b \in WalletIdInputs :
        /\ a # b
        /\ OwnedBy(u, a)
        /\ OwnedBy(u, b)
        /\ \E t \in Transfers : transactions[t].fromWalletId = a
        /\ wallets[a].balance >= Units(1)
        /\ CurrencyMismatch(TransferOutcome(u, a, b, Units(1)))
        /\ ~Accepted(TransferOutcome(u, b, a, Units(1)))
        /\ Accepted(TransferOutcome(u, a, a, Units(1)))

(***************************************************************************)
(* C26  Operations of a wallet on itself.                                  *)
(***************************************************************************)
\* C26: a transfer or convert whose source and destination are one wallet
\* is not rejected for that: for every wallet w of the principal with
\* balance b and every amount a with 0 < a <= b, the transfer from w to w
\* is accepted and leaves w with b + a, and so is and does the convert from
\* w to w when the currency of w has a rate to itself (the rate 1); the
\* credit, computed from the balance read before the debit, is written
\* last.
SameWalletCredited ==
    \A u \in Principals, w \in WalletIdInputs, amount \in Amounts :
        (OwnedBy(u, w) /\ ValidAmount(amount)
            /\ wallets[w].balance >= amount)
        => /\ Accepted(TransferOutcome(u, w, w, amount))
           /\ TransferAfter(u, w, w, amount, "").wallets[w].balance
                  = wallets[w].balance + amount
           /\ InTable(wallets[w].currency, wallets[w].currency)
                  => /\ LookupRate(wallets[w].currency, wallets[w].currency)
                            = RateScale
                     /\ Accepted(ConvertOutcome(u, w, w, amount))
                     /\ ConvertAfter(u, w, w, amount).wallets[w].balance
                            = wallets[w].balance + amount

\* A wallet that received one deposit of a unit holds two units after the
\* convert of that unit to itself at the rate 1, and the transfer of a unit
\* to itself would leave it with three.
SameWalletCreditedWitness ==
    \E u \in Principals, w \in DOMAIN wallets :
        /\ OwnedBy(u, w)
        /\ wallets[w].balance = Units(2)
        /\ DOMAIN transactions = {1, 2}
        /\ transactions[1].type = "deposit"
        /\ transactions[2].type = "conversion"
        /\ transactions[2].rate = RateScale
        /\ transactions[2].fromWalletId = w
        /\ transactions[2].toWalletId = w
        /\ Accepted(TransferOutcome(u, w, w, Units(1)))
        /\ TransferAfter(u, w, w, Units(1), "").wallets[w].balance = Units(3)

(***************************************************************************)
(* C27  Replaying the ledger.                                              *)
(***************************************************************************)
\* What ledger entry e adds to wallet w when the ledger is replayed: the
\* amount of a deposit or transfer into w, amount * rate of a conversion
\* into w, less the amount of a transfer or conversion out of w.
ReplayEffect(e, w) ==
    (IF e.toWalletId = w
     THEN IF e.type = "conversion"
          THEN ConvertedAmount(e.amount, e.rate) ELSE e.amount
     ELSE 0)
    - (IF "fromWalletId" \in DOMAIN e /\ e.fromWalletId = w
       THEN e.amount ELSE 0)

\* The balance of wallet w after the replay of the ledger entries 1 .. n
\* from zero.
RECURSIVE Replay(_, _)
Replay(w, n) ==
    IF n = 0 THEN 0
    ELSE Replay(w, n - 1) + ReplayEffect(transactions[n], w)

\* C27: with handlers run one at a time and no failing storage call, in
\* every reachable state the balance of every wallet is the value that the
\* replay of the ledger from zero gives: the amounts of the deposits and
\* transfers into it, plus amount * rate of the conversions into it, less
\* the amounts of the transfers and conversions out of it.
LedgerReplay ==
    \A w \in DOMAIN wallets :
        wallets[w].balance = Replay(w, transactionId - 1)

(***************************************************************************)
(* C28  Isolation of the accounts.                                         *)
(***************************************************************************)
\* What store s returns to account u: its wallets (GET /api/wallets), its
\* ledger entries (GET /api/transactions) and the entries that name one of
\* its wallets (GET /api/wallets/:id).
WalletsOf(s, u) ==
    {s.wallets[w] : w \in {x \in DOMAIN s.wallets : s.wallets[x].userId = u}}

EntriesOf(s, u) ==
    {s.transactions[t] :
        t \in {x \in DOMAIN s.transactions : s.transactions[x].userId = u}}

WalletEntriesOf(s, u) ==
    {s.transactions[t] :
        t \in {x \in DOMAIN s.transactions :
                  \E w \in WalletsOf(s, u) :
                      NamesWallet(s.transactions[x], w.id)}}

ReturnedTo(s, u) == <<WalletsOf(s, u), EntriesOf(s, u), WalletEntriesOf(s, u)>>

\* A request of account v that leaves store s touches no other account: the
\* wallets of the others keep their balances, the ledger entries that s
\* adds are owned by v, and every other account is returned what it was
\* returned before.
Isolated(s, v) ==
    /\ \A w \in DOMAIN wallets :
           wallets[w].userId # v
               => s.wallets[w].balance = wallets[w].balance
    /\ \A t \in DOMAIN s.transactions \ DOMAIN transactions :
           s.transactions[t].userId = v
    /\ \A u \in DOMAIN users \ {v} : ReturnedTo(s, u) = ReturnedTo(Current, u)

\* C28: in every reachable state no request of account A changes the
\* balance of a wallet of another account B or adds a ledger entry owned by
\* B, and no request of B (or registration of another account) changes the
\* wallets and ledger entries that are returned to A.  What depends on the
\* others is the identifier of a record that A creates: it is the next
\* value of a counter that all accounts share.
Isolation ==
    /\ \A email \in Emails, valid \in BOOLEAN :
           Isolated(RegisterAfter(email, valid), userId)
    /\ \A v \in Principals :
        /\ \A currency \in CurrencyInputs, name \in NameInputs :
               Isolated(CreateWalletAfter(v, currency, name), v)
        /\ \A w \in WalletIdInputs, amount \in Amounts :
               Isolated(DepositAfter(v, w, amount), v)
        /\ \A from \in WalletIdInputs, to \in WalletIdInputs,
              amount \in Amounts :
            /\ Isolated(TransferAfter(v, from, to, amount, ""), v)
            /\ Isolated(ConvertAfter(v, from, to, amount), v)

\* The wallets of every account carry the identifiers that they carry when
\* no other account performs any operation: 1 .. k for its k wallets.
IdsOfOwnOperations ==
    \A u \in DOMAIN users :
        {w.id : w \in WalletsOf(Current, u)}
            = 1..Cardinality(WalletsOf(Current, u))

\* C28 as claimed: no request of an account changes a balance of another
\* account or adds a ledger entry owned by another account, and what an
\* account is returned is the same whatever the other accounts perform, in
\* particular the same as when they perform nothing.
IsolationAsClaimed == Isolation /\ IdsOfOwnOperations

\* Two accounts hold a unit each, each by a deposit of its own, and neither
\* may deposit into, transfer from or convert from the wallet of the other.
IsolationWitness ==
    \E a \in Principals, b \in Principals :
        /\ a # b
        /\ \A u \in {a, b} :
               /\ Cardinality(EntriesOf(Current, u)) = 1
               /\ \E w \in WalletsOf(Current, u) : w.balance = Units(1)
        /\ \A w \in WalletsOf(Current, b) :
               /\ Forbidden(DepositOutcome(a, w.id, Units(1)))
               /\ \A x \in WalletsOf(Current, a) :
                      /\ Forbidden(TransferOutcome(a, w.id, x.id, Units(1)))
                      /\ Forbidden(ConvertOutcome(a, w.id, x.id, Units(1)))

(***************************************************************************)
(* C29  Wallets of a currency without exchange rates.                      *)
(***************************************************************************)
\* The currencies that can be held but have no row in the rate table.
Rateless == {"JPY", "CAD", "AUD", "CHF"}

\* The wallets of such a currency.
RatelessWallets == {w \in DOMAIN wallets : wallets[w].currency \in Rateless}

\* A wallet of a rateless currency can be created and funded, every convert
\* out of it is rejected, and a transfer out of it is accepted only to
\* itself.
RatelessRequests ==
    /\ Rateless \subseteq availableCurrencies
    /\ \A u \in Principals :
        /\ \A currency \in CurrencyInputs \cap Rateless :
               ~HasWalletIn(u, currency)
                   => Accepted(CreateWalletOutcome(u, currency, ""))
        /\ \A w \in RatelessWallets :
            /\ OwnedBy(u, w)
                   => \A amount \in Amounts :
                          ValidAmount(amount)
                              => Accepted(DepositOutcome(u, w, amount))
            /\ \A to \in WalletIdInputs, amount \in Amounts :
                /\ ~Accepted(ConvertOutcome(u, w, to, amount))
                /\ Accepted(TransferOutcome(u, w, to, amount)) => to = w

\* No step lowers the balance of a wallet of a rateless currency.
RatelessKept ==
    \A w \in RatelessWallets :
        w \in DOMAIN wallets' /\ wallets'[w].balance >= wallets[w].balance

\* C29: with handlers run one at a time, a wallet whose currency is JPY,
\* CAD, AUD or CHF can be created and funded, and over every sequence of
\* operations its balance never decreases: every convert out of it is
\* rejected and the only transfer out of it that is accepted goes to the
\* wallet itself.
NeverDrained == []RatelessRequests /\ [][RatelessKept]_vars

\* An account holds a JPY wallet with two units, one from a deposit and one
\* from the transfer of that unit to itself, and would be refused the
\* convert of a unit from it to its USD wallet.
NeverDrainedWitness ==
    \E u \in Principals, w \in RatelessWallets, d \in DOMAIN wallets :
        /\ OwnedBy(u, w)
        /\ OwnedBy(u, d)
        /\ wallets[d].currency = "USD"
        /\ wallets[w].balance = Units(2)
        /\ \E t \in Transfers : transactions[t].fromWalletId = w
        /\ RateNotAvailable(ConvertOutcome(u, w, d, Units(1)))
        /\ RateNotAvailable(ConvertOutcome(u, w, w, Units(1)))

(***************************************************************************)
(* C30  Referential integrity of the ledger.                               *)
(***************************************************************************)
\* Ledger entry e names wallet w with currency field c correctly: w exists,
\* belongs to the account of the entry and has currency c.
RefersTo(e, w, c) ==
    /\ w \in DOMAIN wallets
    /\ wallets[w].userId = e.userId
    /\ wallets[w].currency = c

WellFormedEntry(e) ==
    /\ e.amount > 0
    /\ e.userId \in DOMAIN users
    /\ RefersTo(e, e.toWalletId, e.toCurrency)
    /\ "fromWalletId" \in DOMAIN e
           => RefersTo(e, e.fromWalletId, e.fromCurrency)
    /\ e.type \in {"transfer", "conversion"} => "fromWalletId" \in DOMAIN e

\* The amounts that validation refuses.
RefusedAmounts == {Units(0), Units(0 - 1)}

\* A request with a refused amount is answered with the validation error,
\* leaves the store as it is, and its handler returns in its first step,
\* before it awaits a storage call.
RefusedAtOnce(op, u, from, to, amount, r, s) ==
    /\ ValidationError(r)
    /\ s = Current
    /\ StepOf(Job(op, Request(u, "", from, to, amount, ""))) = Return(Current)

====
